---- MODULE Spec2Model ----
(***************************************************************************)
(* The plant-disease diagnosis pipeline of AgroVibe:                       *)
(*   backend/ml_models/disease_model.py   DiseaseClassifier, heuristic     *)
(*   backend/services/disease_service.py  analyze_disease, severity        *)
(*   backend/services/disease_scraper.py  DISEASE_DATABASE, lookup         *)
(*   backend/services/llm_client.py       GroqLLMClient                    *)
(*                                                                         *)
(* Conventions.  Python strings are TLA+ strings.  None and the empty      *)
(* string are both written "" where the code only tests truthiness.        *)
(* Confidences are hundredths (0.40 is 40).  Aspect ratio and edge         *)
(* intensity are tenths (1.5 is 15, 45 is 450).  Channel means and         *)
(* standard deviations are whole units.                                    *)
(***************************************************************************)
EXTENDS Integers, Sequences, FiniteSets, TLC

(***************************************************************************)
(* Python string operations                                                *)
(***************************************************************************)

\* The operators below evaluate a string argument once, by drawing it from a
\* singleton set, and then work on the value.
TheOne(S) == CHOOSE x \in S : TRUE

\* str.find(sub): the first index (1-based) at which sub occurs in s, 0 if none.
FindIn(ss, tt) ==
    LET n == Len(ss) - Len(tt) + 1
        At(i) == SubSeq(ss, i, i + Len(tt) - 1) = tt
    IN  IF \E i \in 1..n : At(i)
        THEN CHOOSE i \in 1..n : At(i) /\ \A j \in 1..(i - 1) : ~At(j)
        ELSE 0

Find(s, sub) == TheOne({ FindIn(ss, tt) : ss \in { s }, tt \in { sub } })

\* Python's `sub in s`.
StrIn(sub, s) == Find(s, sub) > 0

\* str.split(sep): the parts between successive non-overlapping occurrences
\* of sep, scanning from the left.
RECURSIVE StrSplit(_, _)
StrSplit(s, sep) ==
    TheOne({ TheOne({ IF i = 0 THEN << ss >>
                      ELSE << SubSeq(ss, 1, i - 1) >>
                           \o StrSplit(SubSeq(ss, i + Len(sep), Len(ss)), sep) :
                      i \in { FindIn(ss, sep) } }) :
             ss \in { s } })

\* str.replace(old, new): every non-overlapping occurrence, from the left.
RECURSIVE StrReplace(_, _, _)
StrReplace(s, old, new) ==
    TheOne({ TheOne({ IF i = 0 THEN ss
                      ELSE SubSeq(ss, 1, i - 1) \o new
                           \o StrReplace(SubSeq(ss, i + Len(old), Len(ss)), old, new) :
                      i \in { FindIn(ss, old) } }) :
             ss \in { s } })

UpperChars == "ABCDEFGHIJKLMNOPQRSTUVWXYZ"
LowerChars == "abcdefghijklmnopqrstuvwxyz"

LowerChar(c) ==
    TheOne({ IF i = 0 THEN c ELSE SubSeq(LowerChars, i, i) :
             i \in { FindIn(UpperChars, c) } })

\* str.lower(): the characters of s, each lower-cased, in order.
StrLowerOf(ss) ==
    LET lowered[i \in 0..Len(ss)] ==
            IF i = 0 THEN ""
            ELSE lowered[i - 1] \o LowerChar(SubSeq(ss, i, i))
    IN  lowered[Len(ss)]

StrLower(s) == TheOne({ StrLowerOf(ss) : ss \in { s } })

SEP == "___"

(***************************************************************************)
(* Static tables                                                           *)
(***************************************************************************)

\* DiseaseClassifier._load_classes: the default PlantVillage class table.
classes ==
    << "Apple___Apple_scab",
       "Apple___Black_rot",
       "Apple___Cedar_apple_rust",
       "Apple___healthy",
       "Blueberry___healthy",
       "Cherry_(including_sour)___Powdery_mildew",
       "Cherry_(including_sour)___healthy",
       "Corn_(maize)___Cercospora_leaf_spot Gray_leaf_spot",
       "Corn_(maize)___Common_rust_",
       "Corn_(maize)___Northern_Leaf_Blight",
       "Corn_(maize)___healthy",
       "Grape___Black_rot",
       "Grape___Esca_(Black_Measles)",
       "Grape___Leaf_blight_(Isariopsis_Leaf_Spot)",
       "Grape___healthy",
       "Orange___Haunglongbing_(Citrus_greening)",
       "Peach___Bacterial_spot",
       "Peach___healthy",
       "Pepper,_bell___Bacterial_spot",
       "Pepper,_bell___healthy",
       "Potato___Early_blight",
       "Potato___Late_blight",
       "Potato___healthy",
       "Raspberry___healthy",
       "Soybean___healthy",
       "Squash___Powdery_mildew",
       "Strawberry___Leaf_scorch",
       "Strawberry___healthy",
       "Tomato___Bacterial_spot",
       "Tomato___Early_blight",
       "Tomato___Late_blight",
       "Tomato___Leaf_Mold",
       "Tomato___Septoria_leaf_spot",
       "Tomato___Spider_mites Two-spotted_spider_mite",
       "Tomato___Target_Spot",
       "Tomato___Tomato_Yellow_Leaf_Curl_Virus",
       "Tomato___Tomato_mosaic_virus",
       "Tomato___healthy" >>

\* Keys of DISEASE_DATABASE in insertion (table) order.
DISEASE_KEYS ==
    << "Corn_(maize)___Common_rust_",
       "Corn_(maize)___Northern_Leaf_Blight",
       "Tomato___Early_blight",
       "Tomato___Late_blight",
       "Tomato___Bacterial_spot",
       "Potato___Early_blight",
       "Potato___Late_blight",
       "Pepper,_bell___Bacterial_spot",
       "Grape___Black_rot",
       "Apple___Black_rot" >>

\* disease_scraper.DISEASE_DATABASE as written in the source.
DISEASE_DATABASE ==
    "Corn_(maize)___Common_rust_" :>
      [symptoms |-> <<"Small, circular to elongated brown pustules",
                     "Pustules on both leaf surfaces",
                     "Yellowing of leaves">>,
       treatment |-> <<"Apply fungicides containing azoxystrobin or propiconazole",
                      "Plant resistant corn hybrids",
                      "Remove and destroy infected plant debris",
                      "Ensure proper plant spacing for air circulation">>,
       prevention |-> <<"Use resistant varieties",
                       "Rotate crops with non-host plants",
                       "Apply preventive fungicide sprays during humid weather",
                       "Monitor fields regularly during warm, humid conditions">>,
       severity |-> "Moderate to High",
       recovery_days |-> "14-21 days with treatment"] @@
    "Corn_(maize)___Northern_Leaf_Blight" :>
      [symptoms |-> <<"Long, elliptical gray-green lesions",
                     "Lesions turn tan with age",
                     "Lesions parallel to leaf veins">>,
       treatment |-> <<"Apply fungicides (strobilurin or triazole-based)",
                      "Remove severely infected leaves",
                      "Improve field drainage",
                      "Reduce plant density if possible">>,
       prevention |-> <<"Plant resistant hybrids",
                       "Crop rotation with non-cereal crops",
                       "Bury crop residue after harvest",
                       "Avoid overhead irrigation">>,
       severity |-> "High",
       recovery_days |-> "21-28 days"] @@
    "Tomato___Early_blight" :>
      [symptoms |-> <<"Dark brown spots with concentric rings (target-like)",
                     "Lower leaves affected first",
                     "Yellowing around spots">>,
       treatment |-> <<"Apply copper-based fungicides or chlorothalonil",
                      "Remove infected lower leaves",
                      "Mulch around plants to prevent soil splash",
                      "Water at base of plants, not overhead">>,
       prevention |-> <<"Use disease-resistant varieties",
                       "Rotate crops (3-4 year cycle)",
                       "Space plants properly for air circulation",
                       "Apply preventive fungicide sprays">>,
       severity |-> "Moderate",
       recovery_days |-> "14-21 days"] @@
    "Tomato___Late_blight" :>
      [symptoms |-> <<"Water-soaked spots on leaves",
                     "White fuzzy growth on undersides",
                     "Rapid plant collapse",
                     "Brown lesions on fruits">>,
       treatment |-> <<"Apply systemic fungicides immediately (mancozeb, chlorothalonil)",
                      "Remove and destroy all infected plants",
                      "Avoid working with wet plants",
                      "Improve air circulation">>,
       prevention |-> <<"Plant certified disease-free transplants",
                       "Avoid overhead watering",
                       "Apply preventive fungicides during cool, wet weather",
                       "Remove volunteer potato and tomato plants">>,
       severity |-> "Very High - Can destroy entire crop",
       recovery_days |-> "Immediate action required - 7-14 days if caught early"] @@
    "Tomato___Bacterial_spot" :>
      [symptoms |-> <<"Small, dark, greasy-looking spots",
                     "Yellow halos around spots",
                     "Spots on leaves, stems, and fruits">>,
       treatment |-> <<"Apply copper-based bactericides",
                      "Remove severely infected plants",
                      "Avoid overhead irrigation",
                      "Disinfect tools between plants">>,
       prevention |-> <<"Use disease-free seeds and transplants",
                       "Rotate crops (3-year minimum)",
                       "Avoid working with wet plants",
                       "Use drip irrigation instead of sprinklers">>,
       severity |-> "Moderate to High",
       recovery_days |-> "21-28 days"] @@
    "Potato___Early_blight" :>
      [symptoms |-> <<"Dark brown lesions with concentric rings",
                     "Yellowing of older leaves",
                     "Premature leaf drop">>,
       treatment |-> <<"Apply fungicides (mancozeb, chlorothalonil)",
                      "Remove infected foliage",
                      "Ensure adequate soil fertility",
                      "Maintain proper irrigation">>,
       prevention |-> <<"Plant certified disease-free seed potatoes",
                       "Rotate with non-solanaceous crops",
                       "Destroy crop debris after harvest",
                       "Maintain balanced fertilization">>,
       severity |-> "Moderate",
       recovery_days |-> "14-21 days"] @@
    "Potato___Late_blight" :>
      [symptoms |-> <<"Water-soaked lesions on leaves",
                     "White mold on undersides",
                     "Tuber rot",
                     "Rapid plant death">>,
       treatment |-> <<"Apply systemic fungicides immediately",
                      "Destroy infected plants completely",
                      "Harvest tubers before disease spreads",
                      "Avoid storing infected tubers">>,
       prevention |-> <<"Use resistant varieties",
                       "Apply preventive fungicides in cool, wet weather",
                       "Hill soil around plants",
                       "Destroy volunteer plants">>,
       severity |-> "Very High - Devastating",
       recovery_days |-> "Immediate action - 7-10 days if early"] @@
    "Pepper,_bell___Bacterial_spot" :>
      [symptoms |-> <<"Small, dark, raised spots on leaves",
                     "Spots may have yellow halos",
                     "Fruit lesions are raised and corky">>,
       treatment |-> <<"Apply copper bactericides",
                      "Remove infected plants",
                      "Improve air circulation",
                      "Avoid overhead watering">>,
       prevention |-> <<"Use disease-free seeds",
                       "Rotate crops (3-4 years)",
                       "Disinfect tools and equipment",
                       "Use drip irrigation">>,
       severity |-> "Moderate",
       recovery_days |-> "21-28 days"] @@
    "Grape___Black_rot" :>
      [symptoms |-> <<"Circular tan lesions on leaves",
                     "Black, mummified berries",
                     "Brown lesions on shoots">>,
       treatment |-> <<"Apply fungicides (mancozeb, myclobutanil)",
                      "Remove mummified berries",
                      "Prune infected canes",
                      "Improve canopy air circulation">>,
       prevention |-> <<"Remove all mummified fruit",
                       "Prune for good air circulation",
                       "Apply preventive fungicides from bud break",
                       "Clean up fallen leaves and debris">>,
       severity |-> "High",
       recovery_days |-> "Season-long management required"] @@
    "Apple___Black_rot" :>
      [symptoms |-> <<"Purple spots on leaves",
                     "Sunken, black lesions on fruit",
                     "Cankers on branches">>,
       treatment |-> <<"Prune out infected branches",
                      "Apply fungicides (captan, thiophanate-methyl)",
                      "Remove infected fruit",
                      "Improve orchard sanitation">>,
       prevention |-> <<"Prune dead and diseased wood",
                       "Remove mummified fruit",
                       "Apply dormant sprays",
                       "Maintain tree vigor with proper fertilization">>,
       severity |-> "Moderate to High",
       recovery_days |-> "Season-long management"]

(***************************************************************************)
(* Dictionaries: a Python dict is a function; d.get(k, default).           *)
(***************************************************************************)
Get(d, k, default) == IF k \in DOMAIN d THEN d[k] ELSE default

(***************************************************************************)
(* disease_model.py                                                        *)
(***************************************************************************)

\* CONFIDENCE_THRESHOLD = 0.40, in hundredths.
CONFIDENCE_THRESHOLD == 40

\* class_name.split("___")[0] if "___" in class_name else "Unknown"
CropFromPrediction(class_name) ==
    IF StrIn(SEP, class_name) THEN StrSplit(class_name, SEP)[1] ELSE "Unknown"

\* Variant of DiseaseNameOf: the label is not split.
DiseaseNameOf_Unsplit(class_name) == class_name

\* class_name.split("___")[1] if "___" in class_name else class_name
DiseaseNameOf(class_name) ==
    IF StrIn(SEP, class_name) THEN StrSplit(class_name, SEP)[2] ELSE class_name

\* "healthy" in class_name.lower()
IsHealthy_Never(class_name) == FALSE   \* variant: the label is not read
IsHealthy(class_name) == StrIn("healthy", StrLower(class_name))

\* g_ratio > pct/100, with g_ratio = g / (r+g+b), or 0.33 when the sum is 0.
GRatioAbove(f, pct) ==
    LET total == f.r + f.g + f.b
    IN  IF total > 0 THEN 100 * f.g > pct * total ELSE 33 > pct

\* Shape and colour indicators of _intelligent_simulation.
is_long_leaf(f)     == f.aspect_ratio > 15 \/ f.aspect_ratio < 6
is_compound_leaf_High(f) == f.edge_intensity > 500   \* variant: threshold 50
is_compound_leaf(f) == f.edge_intensity > 450
is_simple_leaf(f)   == f.edge_intensity < 300
is_lobed_leaf_Open(f) == 300 < f.edge_intensity /\ f.edge_intensity < 450   \* variant
is_lobed_leaf(f)    == 300 <= f.edge_intensity /\ f.edge_intensity <= 450
yellow_indicator(f) == f.r > 120 /\ f.g > 100 /\ f.b < 80
brown_indicator(f)  == f.r > 100 /\ f.g > 70 /\ f.b < 60 /\ f.r > f.g
dark_spots_Below60(f) == f.r < 60 /\ f.g < 60 /\ f.b < 60   \* variant: threshold 60
dark_spots(f)       == f.r < 80 /\ f.g < 80 /\ f.b < 80
white_mold(f)       == f.r > 200 /\ f.g > 200 /\ f.b > 200

\* The decision tree: <<predicted_class, confidence>>.
SimulationBranch(f) ==
    IF is_long_leaf(f) /\ (yellow_indicator(f) \/ brown_indicator(f)) THEN
        IF GRatioAbove(f, 35) THEN << "Corn_(maize)___Common_rust_", 85 >>
        ELSE << "Corn_(maize)___Northern_Leaf_Blight", 82 >>
    ELSE IF is_compound_leaf(f) THEN
        IF dark_spots(f) THEN << "Tomato___Bacterial_spot", 83 >>
        ELSE IF yellow_indicator(f) THEN << "Tomato___Early_blight", 79 >>
        ELSE IF brown_indicator(f) THEN << "Potato___Late_blight", 81 >>
        ELSE IF GRatioAbove(f, 45) THEN << "Tomato___healthy", 78 >>
        ELSE << "Tomato___Target_Spot", 72 >>
    ELSE IF is_simple_leaf(f) \/ is_lobed_leaf(f) THEN
        IF dark_spots(f) /\ f.color_variance > 40 THEN << "Grape___Black_rot", 75 >>
        ELSE IF brown_indicator(f) /\ f.r > 120 THEN << "Apple___Black_rot", 76 >>
        ELSE IF yellow_indicator(f) /\ f.edge_intensity > 200
            THEN << "Pepper,_bell___Bacterial_spot", 74 >>
        ELSE IF white_mold(f) THEN << "Squash___Powdery_mildew", 80 >>
        ELSE << "Grape___Esca_(Black_Measles)", 68 >>
    ELSE
        IF yellow_indicator(f) THEN << "Tomato___Early_blight", 65 >>
        ELSE << "Potato___Early_blight", 62 >>

\* Variant of SimulationFallback: the failure is annotated as an error.
SimulationFallback_Annotated ==
    [error |-> "exception",
     disease |-> "Tomato___Early_blight",
     disease_name |-> "Early_blight",
     crop_detected |-> "Tomato",
     confidence |-> 65,
     is_healthy |-> FALSE,
     low_confidence |-> TRUE,
     simulation_mode |-> TRUE]

\* The except branch of _intelligent_simulation.
SimulationFallback ==
    [disease |-> "Tomato___Early_blight",
     disease_name |-> "Early_blight",
     crop_detected |-> "Tomato",
     confidence |-> 65,
     is_healthy |-> FALSE,
     low_confidence |-> FALSE,
     confidence_threshold |-> CONFIDENCE_THRESHOLD,
     simulation_mode |-> TRUE]

\* DiseaseClassifier._intelligent_simulation on a feature vector f; raises
\* says that feature extraction failed inside the try block.
IntelligentSimulation(f, raises) ==
    IF raises THEN SimulationFallback
    ELSE
      LET predicted_class == SimulationBranch(f)[1]
          confidence      == SimulationBranch(f)[2]
      IN  [disease |-> predicted_class,
           disease_name |-> DiseaseNameOf(predicted_class),
           crop_detected |-> CropFromPrediction(predicted_class),
           confidence |-> confidence,
           is_healthy |-> IsHealthy(predicted_class),
           low_confidence |-> confidence < CONFIDENCE_THRESHOLD,
           confidence_threshold |-> CONFIDENCE_THRESHOLD,
           simulation_mode |-> TRUE,
           analysis_features |-> [edge_intensity |-> f.edge_intensity,
                                  color_variance |-> f.color_variance,
                                  dominant_color |-> << f.r, f.g, f.b >>]]

\* Variant of PredictionError: the record has no error key.
PredictionError_NoErrorKey ==
    [disease |-> "Error",
     confidence |-> 0,
     is_healthy |-> FALSE,
     low_confidence |-> TRUE]

\* The except branch of predict.
PredictionError ==
    [error |-> "exception",
     disease |-> "Error",
     confidence |-> 0,
     is_healthy |-> FALSE,
     low_confidence |-> TRUE]

\* Variant of TrainedPrediction: the out-of-range record has no error key.
TrainedPrediction_NoErrorKey(predicted_idx, confidence_value) ==
    IF predicted_idx >= Len(classes) THEN
        [disease |-> "Unknown",
         confidence |-> confidence_value,
         is_healthy |-> FALSE,
         low_confidence |-> TRUE]
    ELSE
      LET class_name == classes[predicted_idx + 1]
      IN  [disease |-> class_name,
           disease_name |-> DiseaseNameOf(class_name),
           crop_detected |-> CropFromPrediction(class_name),
           confidence |-> confidence_value,
           is_healthy |-> IsHealthy(class_name),
           low_confidence |-> confidence_value < CONFIDENCE_THRESHOLD,
           confidence_threshold |-> CONFIDENCE_THRESHOLD]

\* The trained-model branch of predict for the network output
\* (predicted_idx, confidence_value); predicted_idx counts from 0.
TrainedPrediction(predicted_idx, confidence_value) ==
    IF predicted_idx >= Len(classes) THEN
        [disease |-> "Unknown",
         confidence |-> confidence_value,
         is_healthy |-> FALSE,
         low_confidence |-> TRUE,
         error |-> "Model output index out of range"]
    ELSE
      LET class_name == classes[predicted_idx + 1]
      IN  [disease |-> class_name,
           disease_name |-> DiseaseNameOf(class_name),
           crop_detected |-> CropFromPrediction(class_name),
           confidence |-> confidence_value,
           is_healthy |-> IsHealthy(class_name),
           low_confidence |-> confidence_value < CONFIDENCE_THRESHOLD,
           confidence_threshold |-> CONFIDENCE_THRESHOLD]

\* Variant of predict: model_trained is not consulted.
predict_IgnoresModelTrained(model_trained, img) ==
    IF ~img.decodable \/ img.raises THEN PredictionError
    ELSE TrainedPrediction(img.predicted_idx, img.confidence_value)

\* DiseaseClassifier.predict.  img describes what the image and the libraries
\* do: decodable (Image.open succeeds), raises (an exception inside the
\* branch taken), and the branch's numeric input.
predict(model_trained, img) ==
    IF ~img.decodable THEN PredictionError
    ELSE IF ~model_trained THEN IntelligentSimulation(img.features, img.raises)
    ELSE IF img.raises THEN PredictionError
    ELSE TrainedPrediction(img.predicted_idx, img.confidence_value)

(***************************************************************************)
(* disease_service.py: pure parts                                          *)
(***************************************************************************)

\* Variant of calculate_severity: the first comparison is inclusive.
calculate_severity_Inclusive(area_pct) ==
    IF area_pct <= 15 THEN "Low"
    ELSE IF area_pct < 35 THEN "Medium"
    ELSE "High"

\* calculate_severity
calculate_severity(area_pct) ==
    IF area_pct < 15 THEN "Low"
    ELSE IF area_pct < 35 THEN "Medium"
    ELSE "High"

Digits == "0123456789"

\* str(n) for a natural number n.
RECURSIVE IntToStr(_)
IntToStr(n) ==
    IF n < 10 THEN SubSeq(Digits, n + 1, n + 1)
    ELSE IntToStr(n \div 10) \o SubSeq(Digits, (n % 10) + 1, (n % 10) + 1)

\* Variant of detected_crop_from_disease: a label without "___" is its own
\* crop.
detected_crop_from_disease_WholeLabel(label) ==
    IF StrIn(SEP, label) THEN StrSplit(label, SEP)[1] ELSE label

\* detected_disease.split("___")[0] if "___" in detected_disease else ""
detected_crop_from_disease(label) ==
    IF StrIn(SEP, label) THEN StrSplit(label, SEP)[1] ELSE ""

\* Variant of detected_crop_normalized: ",_bell" is not removed.
detected_crop_normalized_KeepsBell(label) ==
    StrReplace(StrLower(detected_crop_from_disease(label)), "_(maize)", "")

\* crop_type.lower().replace(" ", "_")
user_crop_normalized(ct) == StrReplace(StrLower(ct), " ", "_")

\* detected_crop_from_disease.lower().replace("_(maize)", "").replace(",_bell", "")
detected_crop_normalized(label) ==
    StrReplace(StrReplace(StrLower(detected_crop_from_disease(label)), "_(maize)", ""),
               ",_bell", "")

\* The test of line 88: neither normalized crop contains the other.
CropsMismatch(label, ct) ==
    /\ ~StrIn(user_crop_normalized(ct), detected_crop_normalized(label))
    /\ ~StrIn(detected_crop_normalized(label), user_crop_normalized(ct))

\* detected_disease.split("___")[1] if "___" in detected_disease else "Unknown"
disease_type(label) ==
    IF StrIn(SEP, label) THEN StrSplit(label, SEP)[2] ELSE "Unknown"

\* Variant of user_crop_diseases: the keys are not filtered by the crop.
user_crop_diseases_Unfiltered(keys, ct) == keys

\* [d for d in DISEASE_DATABASE.keys() if crop_type.lower() in d.lower()]
user_crop_diseases(keys, ct) ==
    LET Hit(d) == StrIn(StrLower(ct), StrLower(d))
    IN  SelectSeq(keys, Hit)

\* Variant of matched_disease: the first candidate is taken.
matched_disease_First(cands, label) == cands[1]

\* Variant of matched_disease: the test of line 104 is negated.
matched_disease_Negated(cands, label) ==
    LET Hits == { i \in 1..Len(cands) :
                    ~StrIn(StrLower(disease_type(label)), StrLower(cands[i])) }
    IN  IF Hits # {} THEN cands[CHOOSE i \in Hits : \A j \in Hits : i <= j]
        ELSE cands[1]

\* The for loop of lines 102-110 over the candidates cands.
matched_disease(cands, label) ==
    LET Hits == { i \in 1..Len(cands) :
                    StrIn(StrLower(disease_type(label)), StrLower(cands[i])) }
    IN  IF Hits # {} THEN cands[CHOOSE i \in Hits : \A j \in Hits : i <= j]
        ELSE cands[1]

\* f"{crop_type}___Unknown_disease"
SynthesizedLabel(ct) == ct \o "___Unknown_disease"

\* Variant of ReconciledDisease: a declared crop always remaps the label.
ReconciledDisease_AlwaysRemaps(keys, label, ct) ==
    IF ct = "" THEN label
    ELSE IF Len(user_crop_diseases(keys, ct)) > 0
        THEN matched_disease(user_crop_diseases(keys, ct), label)
    ELSE SynthesizedLabel(ct)

\* Lines 75-119: the label after crop reconciliation.
ReconciledDisease(keys, label, ct) ==
    IF ct = "" THEN label
    ELSE IF ~CropsMismatch(label, ct) THEN label
    ELSE IF Len(user_crop_diseases(keys, ct)) > 0
        THEN matched_disease(user_crop_diseases(keys, ct), label)
    ELSE SynthesizedLabel(ct)

\* Lines 76 and 119.
ActualCrop(ct, detected_crop) == IF ct = "" THEN detected_crop ELSE ct

(***************************************************************************)
(* disease_scraper.py                                                      *)
(***************************************************************************)

\* get_disease_info: DISEASE_DATABASE.get(disease_name).  An Optional value
\* is a sequence of length 0 (None) or 1.
get_disease_info(db, disease_name) ==
    IF disease_name \in DOMAIN db.entries THEN << db.entries[disease_name] >> ELSE << >>

\* Truthiness of an Optional[Dict]: not None and not empty.
Truthy(opt) == Len(opt) > 0 /\ DOMAIN opt[1] # {}

\* Variant of scrape_disease_treatment: the recovery window is read under
\* the key "recovery_timeline", which no entry has.
scrape_disease_treatment_WrongKey(db, disease_name, ct) ==
    LET found == get_disease_info(db, disease_name)
        disease_info == IF Truthy(found) THEN found[1] ELSE [none |-> TRUE]
    IN  [success |-> TRUE,
         disease |-> disease_name,
         crop |-> ct,
         symptoms |-> Get(disease_info, "symptoms", << >>),
         treatment |-> Get(disease_info, "treatment", << >>),
         prevention |-> Get(disease_info, "prevention", << >>),
         severity |-> Get(disease_info, "severity", "Unknown"),
         recovery_timeline |-> Get(disease_info, "recovery_timeline", "Varies"),
         source |-> "Agricultural Disease Database"]

\* scrape_disease_treatment
scrape_disease_treatment(db, disease_name, ct) ==
    LET found == get_disease_info(db, disease_name)
        disease_info == found[1]
    IN  IF Truthy(found) THEN
            [success |-> TRUE,
             disease |-> disease_name,
             crop |-> ct,
             symptoms |-> Get(disease_info, "symptoms", << >>),
             treatment |-> Get(disease_info, "treatment", << >>),
             prevention |-> Get(disease_info, "prevention", << >>),
             severity |-> Get(disease_info, "severity", "Unknown"),
             recovery_timeline |-> Get(disease_info, "recovery_days", "Varies"),
             source |-> "Agricultural Disease Database"]
        ELSE
            [success |-> TRUE,
             disease |-> disease_name,
             crop |-> ct,
             treatment |->
               << "Consult local agricultural extension for " \o ct
                    \o " disease management",
                  "Remove and destroy infected plant parts",
                  "Improve air circulation and reduce humidity",
                  "Consider applying broad-spectrum fungicide" >>,
             prevention |->
               << "Use disease-resistant varieties",
                  "Practice crop rotation",
                  "Maintain proper plant spacing",
                  "Monitor plants regularly for early detection" >>,
             severity |-> "Unknown - Requires expert diagnosis",
             recovery_timeline |-> "Consult agricultural expert",
             source |-> "General recommendations"]

(***************************************************************************)
(* disease_service.py: the reports of analyze_disease                      *)
(***************************************************************************)

\* utils.get_current_season
get_current_season(month) ==
    IF month \in { 3, 4, 5 } THEN "Spring"
    ELSE IF month \in { 6, 7, 8 } THEN "Summer"
    ELSE IF month \in { 9, 10, 11 } THEN "Fall"
    ELSE "Winter"

\* utils.get_time_context: the field analyze_disease reads.
get_time_context(month) == [season |-> get_current_season(month)]

\* Variant of IsLowConfidence: the comparison is inverted and the flag unread.
IsLowConfidence_Inverted(low, conf) == conf > CONFIDENCE_THRESHOLD

\* Variant of IsLowConfidence: the threshold itself counts as low.
IsLowConfidence_Inclusive(low, conf) == low \/ conf <= CONFIDENCE_THRESHOLD

\* Line 126: low_confidence or confidence < CONFIDENCE_THRESHOLD
IsLowConfidence(low, conf) == low \/ conf < CONFIDENCE_THRESHOLD

\* Lines 56-59.
InvalidImageResult ==
    [success |-> FALSE, error |-> "No valid image provided for analysis"]

\* Lines 64-67.
DetectionErrorResult ==
    [success |-> FALSE,
     error |-> "Image analysis failed. Please upload a clear image of the plant leaf or fruit."]

\* Lines 227-233: the top-level except.
ExceptionResult(msg) ==
    [success |-> FALSE, error |-> "Analysis failed: " \o msg]

\* Lines 127-149.
LowConfidenceReport(conf, wx, tctx) ==
    [success |-> TRUE,
     low_confidence_warning |-> TRUE,
     disease_name |-> "Uncertain",
     confidence |-> conf,
     severity |-> "Unknown",
     affected_area |-> "Unknown",
     treatment |->
       << "The image quality or lighting is insufficient for accurate diagnosis",
          "Please upload a clearer, well-lit image of the affected plant part",
          "Ensure the diseased area is clearly visible and in focus",
          "Take photo in natural daylight if possible" >>,
     prevention |->
       << "Consult a local agricultural expert for in-person diagnosis",
          "Monitor the plant closely for symptom progression" >>,
     message |-> "Low confidence prediction (" \o IntToStr(conf)
                   \o ".0%). Please upload a better quality image for accurate diagnosis.",
     context_used |-> [weather |-> Get(wx, "description", "None"),
                       season |-> tctx.season]]

ContextUsed(conf, crop, wx, tctx) ==
    [weather |-> Get(wx, "description", "None"),
     temp |-> Get(wx, "temperature", "None"),
     season |-> tctx.season,
     confidence |-> conf,
     detected_crop |-> crop]

\* Variant of DatabaseReport: the severity is computed from the area.
DatabaseReport_ComputedSeverity(label, conf, area, data, crop_det, crop, wx, tctx) ==
    [success |-> TRUE,
     disease_name |-> label,
     confidence |-> conf,
     severity |-> calculate_severity(area),
     affected_area |-> IntToStr(area) \o "%",
     symptoms |-> Get(data, "symptoms", << >>),
     treatment |-> Get(data, "treatment", << >>),
     prevention |-> Get(data, "prevention", << >>),
     expected_recovery |-> Get(data, "recovery_timeline", "Varies"),
     crop_validated |-> crop_det,
     data_source |-> Get(data, "source", "Disease Database"),
     context_used |-> ContextUsed(conf, crop, wx, tctx)]

\* Lines 161-180.
DatabaseReport(label, conf, area, data, crop_det, crop, wx, tctx) ==
    [success |-> TRUE,
     disease_name |-> label,
     confidence |-> conf,
     severity |-> Get(data, "severity", "Unknown"),
     affected_area |-> IntToStr(area) \o "%",
     symptoms |-> Get(data, "symptoms", << >>),
     treatment |-> Get(data, "treatment", << >>),
     prevention |-> Get(data, "prevention", << >>),
     expected_recovery |-> Get(data, "recovery_timeline", "Varies"),
     crop_validated |-> crop_det,
     data_source |-> Get(data, "source", "Disease Database"),
     context_used |-> ContextUsed(conf, crop, wx, tctx)]

\* Lines 207-225.
AIReport(label, conf, area, analysis, crop_det, crop, wx, tctx) ==
    [success |-> TRUE,
     disease_name |-> label,
     confidence |-> conf,
     severity |-> calculate_severity(area),
     affected_area |-> IntToStr(area) \o "%",
     treatment |-> Get(analysis, "treatment", << >>),
     prevention |-> Get(analysis, "prevention", << >>),
     expected_recovery |-> Get(analysis, "recovery_timeline", "Follow treatment for 14 days"),
     crop_validated |-> crop_det,
     data_source |-> "AI Analysis",
     context_used |-> ContextUsed(conf, crop, wx, tctx)]

(***************************************************************************)
(* llm_client.py: pure parts                                               *)
(***************************************************************************)

\* stop_after_attempt(3)
MAX_ATTEMPTS == 3

\* Variant of ShouldRetry: the bound is inclusive.
ShouldRetry_Inclusive(attempt) == attempt <= MAX_ATTEMPTS

\* tenacity after a failed attempt: another attempt unless attempt number
\* MAX_ATTEMPTS has just failed.
ShouldRetry(attempt) == attempt < MAX_ATTEMPTS

\* GroqLLMClient._fallback_response(TaskType.DEEP_ANALYSIS)
FallbackText ==
    "Detailed analysis is temporarily unavailable. Please ensure GROQ_API_KEY is configured for AI-powered recommendations."

\* What the chat-completion API can answer: a JSON object, a JSON object
\* wrapped in prose, or prose without an object.
PlanJson == "{\"treatment\": [\"t1\"], \"prevention\": [\"p1\"], \"recovery_timeline\": \"10 days\"}"
EmptyJson == "{}"
WrappedJson == "Here is the plan: {\"treatment\": [\"t1\"]} Good luck."
Prose == "I cannot answer that."
ApiContents == { PlanJson, EmptyJson, WrappedJson, Prose }

\* json.loads on the contents above: << map >> or << >> for JSONDecodeError.
json_loads(text) ==
    IF text = PlanJson THEN
        << [treatment |-> << "t1" >>, prevention |-> << "p1" >>,
            recovery_timeline |-> "10 days"] >>
    ELSE IF text = EmptyJson THEN << [x \in {} |-> ""] >>
    ELSE IF text = "{\"treatment\": [\"t1\"]}" THEN << [treatment |-> << "t1" >>] >>
    ELSE << >>

\* Index of the last occurrence of the one-character string c in s, 0 if none.
RFind(s, c) ==
    LET Occurs == { i \in 1..Len(s) : SubSeq(s, i, i) = c }
    IN  IF Occurs = {} THEN 0 ELSE CHOOSE i \in Occurs : \A j \in Occurs : i >= j

\* re.search(r'\{.*\}', response, re.DOTALL): from the first "{" to the last
\* "}" after it; << >> when there is no match.
search_braces(text) ==
    LET i == Find(text, "{")
        j == RFind(text, "}")
    IN  IF i > 0 /\ j > i THEN << SubSeq(text, i, j) >> ELSE << >>

\* Lines 138-146 of generate_structured: [returned |-> map] or [raised |-> e].
ParseStructured(response) ==
    IF Len(json_loads(response)) > 0 THEN [returned |-> json_loads(response)[1]]
    ELSE IF Len(search_braces(response)) = 0 THEN [raised |-> "JSONDecodeError"]
    ELSE IF Len(json_loads(search_braces(response)[1])) > 0
        THEN [returned |-> json_loads(search_braces(response)[1])[1]]
    ELSE [raised |-> "JSONDecodeError"]

(***************************************************************************)
(* disease_model.get_disease_classifier                                    *)
(***************************************************************************)

\* What DiseaseClassifier() can do: load the trained weights, run without
\* them (missing or unreadable), or raise while building the network.
LoadOutcomes == { "trained", "untrained", "raise" }

\* The instance DiseaseClassifier() yields; serial tells instances apart.
DiseaseClassifier(outcome, serial) ==
    [model_trained |-> outcome = "trained", serial |-> serial]

\* Variant of get_disease_classifier: the module attribute is not consulted.
get_disease_classifier_AlwaysConstructs(global, constructed, outcome) ==
    IF outcome = "raise"
    THEN [global |-> global, constructed |-> constructed, returned |-> << >>]
    ELSE [global      |-> << DiseaseClassifier(outcome, constructed + 1) >>,
          constructed |-> constructed + 1,
          returned    |-> << DiseaseClassifier(outcome, constructed + 1) >>]

\* get_disease_classifier(): global is the module attribute _classifier
\* before the call, constructed the number of instances built so far.  The
\* result gives both after the call and what the call returned (<< >> when
\* the constructor raised).
get_disease_classifier(global, constructed, outcome) ==
    IF global = << >>
    THEN IF outcome = "raise"
         THEN [global |-> << >>, constructed |-> constructed, returned |-> << >>]
         ELSE [global      |-> << DiseaseClassifier(outcome, constructed + 1) >>,
               constructed |-> constructed + 1,
               returned    |-> << DiseaseClassifier(outcome, constructed + 1) >>]
    ELSE [global |-> global, constructed |-> constructed, returned |-> global]

(***************************************************************************)
(* State                                                                   *)
(***************************************************************************)
VARIABLES
    enable_llm_fallback,  \* settings.ENABLE_LLM_FALLBACK
    classifier,           \* disease_model._classifier: << >> or << instance >>
    instances,            \* history: DiseaseClassifier objects constructed so far
    requests,             \* concurrent analyze_disease calls: position, classifier held
    groq_client,          \* llm_client._groq_client: << >> or << instance >>
    database,             \* disease_scraper.DISEASE_DATABASE: keys in order, entries
    pc,                   \* position of the running call
    image,                \* analyze_disease argument: the kind of object passed
    crop_type,            \* analyze_disease argument: declared crop, "" for None
    weather,              \* local of analyze_disease
    time_ctx,             \* local of analyze_disease
    model_input,          \* what predict saw: decodability, features, network output
    detection,            \* local of analyze_disease: the dict predict returned
    detected_disease,     \* local of analyze_disease
    confidence,           \* local of analyze_disease
    low_confidence,       \* local of analyze_disease
    crop_detected,        \* local of analyze_disease
    actual_crop,          \* local of analyze_disease
    affected_area_pct,    \* local of analyze_disease
    llm,                  \* the generate_structured call in progress
    result,               \* what the finished call returned (or raised)
    stages                \* history: the pipeline stages this call has executed

process_vars == << enable_llm_fallback, classifier, instances, requests,
                   groq_client, database >>
request_vars == << image, crop_type, weather, time_ctx, model_input, detection,
                   detected_disease, confidence, low_confidence, crop_detected,
                   actual_crop, affected_area_pct >>
vars == << process_vars, request_vars, pc, llm, result, stages >>

(***************************************************************************)
(* Inputs                                                                  *)
(***************************************************************************)

ImageKinds == { "UploadFile", "bytes", "other" }

\* Declared crops offered to analyze_disease ("" is None).
CropTypes == { "", "Tomato", "Corn", "Rice" }

\* datetime.now().month at the time of the request.
Months == { 4, 11 }

\* get_mock_weather_data / OpenWeatherMap: what the weather interface returns.
WeatherValues == { [description |-> "Clear sky", temperature |-> 25] }

\* Softmax maxima the network may report, in hundredths.
ConfidenceValues == { 39, 40, 93 }

\* Argmax indices the network may report (from 0): classes in and out of the
\* knowledge base, a healthy class, and one index past the class table.
IndexValues == { 8, 15, 29, 37, Len(classes) }

Feature(e, a, r, g, b, v) ==
    [edge_intensity |-> e, aspect_ratio |-> a, r |-> r, g |-> g, b |-> b,
     color_variance |-> v]

NoFeatures == Feature(0, 10, 0, 0, 0, 0)

\* Feature vectors of the images offered to the service.
FeatureValues ==
    { Feature(500, 10, 50, 60, 40, 20),     \* compound, dark spots
      Feature(500, 20, 150, 120, 40, 20),   \* long leaf, yellow, compound texture
      Feature(500, 10, 150, 120, 40, 20),   \* compound, yellow
      Feature(460, 10, 60, 200, 60, 20),    \* compound, green
      Feature(200, 10, 50, 60, 40, 50),     \* simple, dark spots, high variance
      Feature(350, 10, 210, 210, 210, 10),  \* lobed, white mold
      Feature(450, 5, 130, 90, 50, 30) }    \* long leaf, brown

\* What the libraries do with one image under a classifier in trained mode
\* or in simulation mode.
ModelInput(decodable, raises, f, idx, conf) ==
    [decodable |-> decodable, raises |-> raises, features |-> f,
     predicted_idx |-> idx, confidence_value |-> conf]

NoModelInput == ModelInput(FALSE, FALSE, NoFeatures, 0, 0)

ModelInputs(model_trained) ==
    { ModelInput(FALSE, FALSE, NoFeatures, 0, 0) }
    \cup (IF model_trained
          THEN { ModelInput(TRUE, TRUE, NoFeatures, 0, 0) }
               \cup { ModelInput(TRUE, FALSE, NoFeatures, i, c) :
                        i \in IndexValues,
                        c \in ConfidenceValues }
          ELSE { ModelInput(TRUE, TRUE, NoFeatures, 0, 0) }
               \cup { ModelInput(TRUE, FALSE, f, 0, 0) : f \in FeatureValues })

NoDetection == [pending |-> TRUE]
NoResult == [pending |-> TRUE]
NoLlm == [caller |-> "none", attempt |-> 0, response |-> ""]

RequestDefaults ==
    /\ weather = [pending |-> TRUE]
    /\ time_ctx = [pending |-> TRUE]
    /\ model_input = NoModelInput
    /\ detection = NoDetection
    /\ detected_disease = ""
    /\ confidence = 0
    /\ low_confidence = FALSE
    /\ crop_detected = ""
    /\ actual_crop = ""
    /\ affected_area_pct = 0

Init ==
    /\ enable_llm_fallback \in BOOLEAN
    /\ classifier = << >>
    /\ instances = 0
    /\ requests = << >>
    /\ groq_client = << >>
    /\ database = [keys |-> DISEASE_KEYS, entries |-> DISEASE_DATABASE]
    /\ pc = "idle"
    /\ image = "none"
    /\ crop_type = ""
    /\ RequestDefaults
    /\ llm = NoLlm
    /\ result = NoResult
    /\ stages = {}

(***************************************************************************)
(* analyze_disease, one action per step between two awaits or returns      *)
(***************************************************************************)

\* random.randint(5, 45)
MIN_AREA_PCT == 5
MAX_AREA_PCT == 45
AreaValues == MIN_AREA_PCT..MAX_AREA_PCT

ResetLocals ==
    /\ weather' = [pending |-> TRUE]
    /\ time_ctx' = [pending |-> TRUE]
    /\ model_input' = NoModelInput
    /\ detection' = NoDetection
    /\ detected_disease' = ""
    /\ confidence' = 0
    /\ low_confidence' = FALSE
    /\ crop_detected' = ""
    /\ actual_crop' = ""
    /\ affected_area_pct' = 0

\* Variant of Raise: the exception leaves analyze_disease.
Raise_Propagates(msg) ==
    /\ result' = [raised |-> msg]
    /\ pc' = "done"

\* An exception inside the try block: lines 227-233.
Raise(msg) ==
    /\ result' = ExceptionResult(msg)
    /\ pc' = "done"

\* The route calls analyze_disease(image, crop_type=crop_type).
Call(kind, ct) ==
    /\ pc = "idle"
    /\ image' = kind
    /\ crop_type' = ct
    /\ ResetLocals
    /\ llm' = NoLlm
    /\ result' = NoResult
    /\ stages' = {}
    /\ pc' = "weather"
    /\ UNCHANGED process_vars

\* Lines 36-39: await get_weather_data, get_time_context.
GetWeather ==
    /\ pc = "weather"
    /\ \/ \E w \in WeatherValues, month \in Months :
            /\ weather' = w
            /\ time_ctx' = get_time_context(month)
            /\ pc' = "classifier"
            /\ UNCHANGED result
       \/ /\ Raise("weather service")
          /\ UNCHANGED << weather, time_ctx >>
    /\ UNCHANGED << process_vars, image, crop_type, model_input, detection,
                    detected_disease, confidence, low_confidence, crop_detected,
                    actual_crop, affected_area_pct, llm, stages >>

\* Line 42: get_disease_classifier(); DiseaseClassifier() loads the weights
\* (model_trained) or fails to build the network.
GetDiseaseClassifier ==
    /\ pc = "classifier"
    /\ \E outcome \in LoadOutcomes :
          LET got == get_disease_classifier(classifier, instances, outcome)
          IN  /\ classifier' = got.global
              /\ instances' = got.constructed
              /\ \/ /\ got.returned # << >>
                    /\ pc' = "predict"
                    /\ UNCHANGED result
                 \/ /\ got.returned = << >>
                    /\ Raise("DiseaseClassifier()")
    /\ UNCHANGED << enable_llm_fallback, requests, groq_client, database,
                    request_vars, llm, stages >>

\* Lines 44-59: dispatch on the image object and classifier.predict.
Predict ==
    /\ pc = "predict"
    /\ \/ /\ image = "other"
          /\ result' = InvalidImageResult
          /\ pc' = "done"
          /\ UNCHANGED << model_input, detection >>
       \/ /\ image = "UploadFile"
          /\ Raise("image.seek")
          /\ UNCHANGED << model_input, detection >>
       \/ /\ image \in { "UploadFile", "bytes" }
          /\ \E mi \in ModelInputs(classifier[1].model_trained) :
                /\ model_input' = mi
                /\ detection' = predict(classifier[1].model_trained, mi)
          /\ pc' = "check"
          /\ UNCHANGED result
    /\ UNCHANGED << process_vars, image, crop_type, weather, time_ctx,
                    detected_disease, confidence, low_confidence, crop_detected,
                    actual_crop, affected_area_pct, llm, stages >>

\* Variant of CheckDetection: the confidence of a label that does not name
\* the declared crop is halved.
CheckDetection_DiscountsMismatch ==
    /\ pc = "check"
    /\ IF "error" \in DOMAIN detection
       THEN /\ result' = DetectionErrorResult
            /\ pc' = "done"
            /\ UNCHANGED << detected_disease, confidence, low_confidence,
                            crop_detected >>
       ELSE /\ detected_disease' = Get(detection, "disease", "Unknown Disease")
            /\ confidence' =
                  IF crop_type # "" /\ CropsMismatch(detection.disease, crop_type)
                  THEN Get(detection, "confidence", 0) \div 2
                  ELSE Get(detection, "confidence", 0)
            /\ low_confidence' = Get(detection, "low_confidence", FALSE)
            /\ crop_detected' = Get(detection, "crop_detected", "Unknown")
            /\ pc' = "reconcile"
            /\ UNCHANGED result
    /\ UNCHANGED << process_vars, image, crop_type, weather, time_ctx, model_input,
                    detection, actual_crop, affected_area_pct, llm, stages >>

\* Lines 61-72.
CheckDetection ==
    /\ pc = "check"
    /\ IF "error" \in DOMAIN detection
       THEN /\ result' = DetectionErrorResult
            /\ pc' = "done"
            /\ UNCHANGED << detected_disease, confidence, low_confidence,
                            crop_detected >>
       ELSE /\ detected_disease' = Get(detection, "disease", "Unknown Disease")
            /\ confidence' = Get(detection, "confidence", 0)
            /\ low_confidence' = Get(detection, "low_confidence", FALSE)
            /\ crop_detected' = Get(detection, "crop_detected", "Unknown")
            /\ pc' = "reconcile"
            /\ UNCHANGED result
    /\ UNCHANGED << process_vars, image, crop_type, weather, time_ctx, model_input,
                    detection, actual_crop, affected_area_pct, llm, stages >>

\* Variant of Reconcile: a synthesized label is recorded as a new key of
\* DISEASE_DATABASE.
Reconcile_RecordsSynthesizedLabel ==
    /\ pc = "reconcile"
    /\ detected_disease' = ReconciledDisease(database.keys, detected_disease, crop_type)
    /\ actual_crop' = ActualCrop(crop_type, crop_detected)
    /\ database' = IF \E i \in 1..Len(database.keys) :
                         database.keys[i] = detected_disease'
                   THEN database
                   ELSE [database EXCEPT !.keys = Append(@, detected_disease')]
    /\ stages' = stages
                   \cup (IF crop_type # "" THEN { "crop_compared" } ELSE {})
                   \cup (IF crop_type # "" /\ CropsMismatch(detected_disease, crop_type)
                         THEN { "kb_keys_read", "remapped" } ELSE {})
    /\ pc' = "gate"
    /\ UNCHANGED << enable_llm_fallback, classifier, instances, requests, groq_client,
                    image, crop_type, weather, time_ctx, model_input,
                    detection, confidence, low_confidence, crop_detected,
                    affected_area_pct, llm, result >>

\* Lines 74-123: crop reconciliation, which reads the keys of DISEASE_DATABASE
\* when the crops do not match.
Reconcile ==
    /\ pc = "reconcile"
    /\ detected_disease' = ReconciledDisease(database.keys, detected_disease, crop_type)
    /\ actual_crop' = ActualCrop(crop_type, crop_detected)
    /\ stages' = stages
                   \cup (IF crop_type # "" THEN { "crop_compared" } ELSE {})
                   \cup (IF crop_type # "" /\ CropsMismatch(detected_disease, crop_type)
                         THEN { "kb_keys_read", "remapped" } ELSE {})
    /\ pc' = "gate"
    /\ UNCHANGED << process_vars, image, crop_type, weather, time_ctx, model_input,
                    detection, confidence, low_confidence, crop_detected,
                    affected_area_pct, llm, result >>

\* Variant of Gate: no early return on low confidence.
Gate_FallsThrough ==
    /\ pc = "gate"
    /\ pc' = "resolve"
    /\ stages' = stages \cup (IF IsLowConfidence(low_confidence, confidence)
                              THEN { "gate_low" } ELSE { "gate_passed" })
    /\ UNCHANGED << process_vars, request_vars, llm, result >>

\* Lines 125-149: the confidence gate.
Gate ==
    /\ pc = "gate"
    /\ IF IsLowConfidence(low_confidence, confidence)
       THEN /\ result' = LowConfidenceReport(confidence, weather, time_ctx)
            /\ pc' = "done"
            /\ stages' = stages \cup { "gate_low" }
       ELSE /\ pc' = "resolve"
            /\ stages' = stages \cup { "gate_passed" }
            /\ UNCHANGED result
    /\ UNCHANGED << process_vars, request_vars, llm >>

\* Lines 151-205: the affected area, the knowledge-base lookup and either the
\* database report or the call of generate_validated_treatment_plan.
Resolve ==
    /\ pc = "resolve"
    /\ \E area \in AreaValues :
         LET disease_data == scrape_disease_treatment(database, detected_disease,
                                                      actual_crop)
             looked == { "kb_lookup" }
                         \cup (IF Truthy(get_disease_info(database, detected_disease))
                               THEN { "kb_hit" } ELSE { "kb_miss" })
         IN  IF Get(disease_data, "success", FALSE)
             THEN /\ affected_area_pct' = area
                  /\ result' = DatabaseReport(detected_disease, confidence, area,
                                              disease_data, crop_detected,
                                              actual_crop, weather, time_ctx)
                  /\ stages' = stages \cup looked \cup { "treatment_resolved" }
                  /\ pc' = "done"
                  /\ UNCHANGED llm
             ELSE /\ \E area2 \in AreaValues : affected_area_pct' = area2
                  /\ llm' = [caller |-> "analyze_disease", attempt |-> 0,
                             response |-> ""]
                  /\ stages' = stages \cup looked \cup { "generative_call" }
                  /\ pc' = "llm_client"
                  /\ UNCHANGED result
    /\ UNCHANGED << process_vars, image, crop_type, weather, time_ctx, model_input,
                    detection, detected_disease, confidence, low_confidence,
                    crop_detected, actual_crop >>

(***************************************************************************)
(* GroqLLMClient.generate_structured, called by generate_validated_        *)
(* treatment_plan and by the soil, yield and market services               *)
(***************************************************************************)

\* soil_service / yield_service / market_service call generate_structured.
ServiceCall ==
    /\ pc = "idle"
    /\ image' = "none"
    /\ crop_type' = ""
    /\ ResetLocals
    /\ llm' = [caller |-> "service", attempt |-> 0, response |-> ""]
    /\ result' = NoResult
    /\ stages' = {}
    /\ pc' = "llm_client"
    /\ UNCHANGED process_vars

\* get_groq_client(): GroqLLMClient() has an async client iff GROQ_API_KEY is set.
GetGroqClient ==
    /\ pc = "llm_client"
    /\ IF groq_client = << >>
       THEN \E key \in BOOLEAN : groq_client' = << [async_client |-> key] >>
       ELSE UNCHANGED groq_client
    /\ llm' = [llm EXCEPT !.attempt = 1]
    /\ pc' = "llm_attempt"
    /\ UNCHANGED << enable_llm_fallback, classifier, instances, requests, database,
                    request_vars, result, stages >>

\* What the caller of generate_structured does with its outcome: lines
\* 205-233 of analyze_disease; the services get the outcome itself.
Finish(outcome) ==
    /\ result' =
         IF llm.caller = "analyze_disease"
         THEN IF "returned" \in DOMAIN outcome
              THEN AIReport(detected_disease, confidence, affected_area_pct,
                            outcome.returned, crop_detected, actual_crop, weather,
                            time_ctx)
              ELSE ExceptionResult(outcome.raised)
         ELSE outcome
    /\ stages' = IF llm.caller = "analyze_disease" /\ "returned" \in DOMAIN outcome
                 THEN stages \cup { "severity_computed", "treatment_resolved" }
                 ELSE stages
    /\ pc' = "done"

\* One attempt of generate_completion (lines 71-112) under tenacity's retry.
Attempt ==
    /\ pc = "llm_attempt"
    /\ \/ /\ ~groq_client[1].async_client
          /\ llm' = [llm EXCEPT !.response = FallbackText]
          /\ pc' = "llm_parse"
          /\ UNCHANGED << result, stages >>
       \/ /\ groq_client[1].async_client
          /\ \E content \in ApiContents : llm' = [llm EXCEPT !.response = content]
          /\ pc' = "llm_parse"
          /\ UNCHANGED << result, stages >>
       \/ /\ groq_client[1].async_client
          /\ enable_llm_fallback
          /\ llm' = [llm EXCEPT !.response = FallbackText]
          /\ pc' = "llm_parse"
          /\ UNCHANGED << result, stages >>
       \/ /\ groq_client[1].async_client
          /\ ~enable_llm_fallback
          /\ ShouldRetry(llm.attempt)
          /\ pc' = "llm_wait"
          /\ UNCHANGED << llm, result, stages >>
       \/ /\ groq_client[1].async_client
          /\ ~enable_llm_fallback
          /\ ~ShouldRetry(llm.attempt)
          /\ Finish([raised |-> "RetryError"])
          /\ UNCHANGED llm
    /\ UNCHANGED << process_vars, request_vars >>

\* wait_exponential between two attempts, then the next attempt.
Retry ==
    /\ pc = "llm_wait"
    /\ llm' = [llm EXCEPT !.attempt = @ + 1]
    /\ pc' = "llm_attempt"
    /\ UNCHANGED << process_vars, request_vars, result, stages >>

\* Lines 138-146 of generate_structured, then back in the caller.
Parse ==
    /\ pc = "llm_parse"
    /\ Finish(ParseStructured(llm.response))
    /\ UNCHANGED << process_vars, request_vars, llm >>

\* The finished call has returned to its caller; its locals are gone.
Return ==
    /\ pc = "done"
    /\ image' = "none"
    /\ crop_type' = ""
    /\ ResetLocals
    /\ llm' = NoLlm
    /\ result' = NoResult
    /\ stages' = {}
    /\ pc' = "idle"
    /\ UNCHANGED process_vars

Next ==
    \/ \E kind \in ImageKinds, ct \in CropTypes : Call(kind, ct)
    \/ GetWeather
    \/ GetDiseaseClassifier
    \/ Predict
    \/ CheckDetection
    \/ Reconcile
    \/ Gate
    \/ Resolve
    \/ ServiceCall
    \/ GetGroqClient
    \/ Attempt
    \/ Retry
    \/ Parse
    \/ Return

Spec == Init /\ [][Next]_vars

\* The event loop runs a started coroutine until it returns, and tenacity
\* re-attempts after its wait.
FairSpec == Spec /\ WF_vars(Next)

(***************************************************************************)
(* Specifications that apply one function to each input of a bounded set   *)
(***************************************************************************)

\* Largest magnitude of the area percentages offered to calculate_severity.
MaxPct == 120

ProcessAtStart ==
    /\ enable_llm_fallback = TRUE
    /\ classifier = << >>
    /\ instances = 0
    /\ requests = << >>
    /\ groq_client = << >>
    /\ database = [keys |-> DISEASE_KEYS, entries |-> DISEASE_DATABASE]

\* calculate_severity on every integer of -MaxPct..MaxPct.
InitSeverity ==
    /\ ProcessAtStart
    /\ image = "none"
    /\ crop_type = ""
    /\ weather = [pending |-> TRUE]
    /\ time_ctx = [pending |-> TRUE]
    /\ model_input = NoModelInput
    /\ detection = NoDetection
    /\ detected_disease = ""
    /\ confidence = 0
    /\ low_confidence = FALSE
    /\ crop_detected = ""
    /\ actual_crop = ""
    /\ affected_area_pct \in (0 - MaxPct)..MaxPct
    /\ llm = NoLlm
    /\ result = NoResult
    /\ stages = {}
    /\ pc = "severity"

ComputeSeverity ==
    /\ pc = "severity"
    /\ result' = [severity |-> calculate_severity(affected_area_pct)]
    /\ pc' = "severity_done"
    /\ UNCHANGED << process_vars, request_vars, llm, stages >>

SpecSeverity == InitSeverity /\ [][ComputeSeverity]_vars

\* Feature vectors around every threshold of the decision tree.
EdgeValues == { 150, 200, 201, 299, 300, 450, 451, 600 }
AspectValues == { 5, 6, 10, 15, 16 }
RedValues == { 60, 80, 101, 121, 201 }
GreenValues == { 60, 71, 101, 130, 201 }
BlueValues == { 40, 60, 79, 201 }
VarianceValues == { 40, 41 }

WideFeatureValues ==
    { Feature(e, a, r, g, b, v) :
        e \in EdgeValues, a \in AspectValues, r \in RedValues, g \in GreenValues,
        b \in BlueValues, v \in VarianceValues }

\* predict in simulation mode on every feature vector of WideFeatureValues
\* and on an image whose analysis raises.
InitHeuristic ==
    /\ enable_llm_fallback = TRUE
    /\ classifier = << DiseaseClassifier("untrained", 1) >>
    /\ instances = 1
    /\ requests = << >>
    /\ groq_client = << >>
    /\ database = [keys |-> DISEASE_KEYS, entries |-> DISEASE_DATABASE]
    /\ image = "bytes"
    /\ crop_type = ""
    /\ weather \in WeatherValues
    /\ time_ctx = get_time_context(4)
    /\ model_input \in { ModelInput(TRUE, FALSE, f, 0, 0) : f \in WideFeatureValues }
                        \cup { ModelInput(TRUE, TRUE, NoFeatures, 0, 0) }
    /\ detection = NoDetection
    /\ detected_disease = ""
    /\ confidence = 0
    /\ low_confidence = FALSE
    /\ crop_detected = ""
    /\ actual_crop = ""
    /\ affected_area_pct = 0
    /\ llm = NoLlm
    /\ result = NoResult
    /\ stages = {}
    /\ pc = "simulate"

Simulate ==
    /\ pc = "simulate"
    /\ detection' = predict(classifier[1].model_trained, model_input)
    /\ pc' = "check"
    /\ UNCHANGED << process_vars, image, crop_type, weather, time_ctx, model_input,
                    detected_disease, confidence, low_confidence, crop_detected,
                    actual_crop, affected_area_pct, llm, result, stages >>

SpecHeuristic == InitHeuristic /\ [][Simulate]_vars

\* A diagnosis in simulation mode on every feature vector of
\* WideFeatureValues, from predict to the returned report.
SpecHeuristicReport ==
    InitHeuristic /\ [][Simulate \/ CheckDetection \/ Reconcile \/ Gate \/ Resolve]_vars

\* Labels of the class table and keys of the knowledge base.
AllLabels ==
    { classes[i] : i \in 1..Len(classes) } \cup { DISEASE_KEYS[i] : i \in 1..Len(DISEASE_KEYS) }

\* Decomposition of a label as in predict, and its recomposition.
InitLabels ==
    /\ ProcessAtStart
    /\ image = "none"
    /\ crop_type = ""
    /\ weather = [pending |-> TRUE]
    /\ time_ctx = [pending |-> TRUE]
    /\ model_input = NoModelInput
    /\ detection = NoDetection
    /\ detected_disease \in AllLabels
    /\ confidence = 0
    /\ low_confidence = FALSE
    /\ crop_detected = ""
    /\ actual_crop = ""
    /\ affected_area_pct = 0
    /\ llm = NoLlm
    /\ result = NoResult
    /\ stages = {}
    /\ pc = "label"

Decompose ==
    /\ pc = "label"
    /\ detection' = [crop_detected |-> CropFromPrediction(detected_disease),
                     disease_name |-> DiseaseNameOf(detected_disease)]
    /\ pc' = "label_split"
    /\ UNCHANGED << process_vars, image, crop_type, weather, time_ctx, model_input,
                    detected_disease, confidence, low_confidence, crop_detected,
                    actual_crop, affected_area_pct, llm, result, stages >>

Recompose ==
    /\ pc = "label_split"
    /\ result' = [label |-> detection.crop_detected \o SEP \o detection.disease_name]
    /\ pc' = "label_joined"
    /\ UNCHANGED << process_vars, request_vars, llm, stages >>

SpecLabels == InitLabels /\ [][Decompose \/ Recompose]_vars

\* Declared crops offered to crop reconciliation: the crops of
\* crop_registry.CROP_DATABASE, and crops of the class table as a form may
\* spell them.
DeclaredCrops ==
    { "Tomato", "Potato", "Onion", "Cabbage", "Cauliflower", "Brinjal", "Okra",
      "Carrot", "Radish", "Beetroot", "Pumpkin", "Bitter Gourd", "Bottle Gourd",
      "Cucumber", "Spinach", "Coriander", "Fenugreek", "Green Peas", "French Beans",
      "Cluster Beans", "Mango", "Banana", "Papaya", "Guava", "Pomegranate", "Grapes",
      "Orange", "Apple", "Watermelon", "Muskmelon", "Rice", "Wheat", "Maize", "Bajra",
      "Jowar", "Barley", "Oats", "Ragi", "Chickpea", "Pigeon Pea", "Green Gram",
      "Black Gram", "Lentil", "Red Gram", "Soybean", "Groundnut", "Mustard",
      "Sunflower", "Sesame", "Safflower", "Castor", "Linseed", "Turmeric", "Chili",
      "Ginger", "Garlic", "Black Pepper", "Cardamom", "Cumin", "Coriander Seed",
      "Sugarcane", "Cotton", "Jute", "Tea", "Coffee", "tomato", "TOMATO", "Corn",
      "corn", "Pepper", "Bell Pepper", "Grape", "Cherry" }

\* Crop reconciliation on every class label and every declared crop: the
\* state of analyze_disease when predict has returned a trained prediction.
InitReconcile ==
    /\ enable_llm_fallback = TRUE
    /\ classifier = << DiseaseClassifier("trained", 1) >>
    /\ instances = 1
    /\ requests = << >>
    /\ groq_client = << >>
    /\ database = [keys |-> DISEASE_KEYS, entries |-> DISEASE_DATABASE]
    /\ image = "bytes"
    /\ crop_type \in DeclaredCrops \cup { "" }
    /\ weather \in WeatherValues
    /\ time_ctx = get_time_context(4)
    /\ model_input \in { ModelInput(TRUE, FALSE, NoFeatures, i, 93) :
                           i \in 0..(Len(classes) - 1) }
    /\ detection = predict(TRUE, model_input)
    /\ detected_disease = ""
    /\ confidence = 0
    /\ low_confidence = FALSE
    /\ crop_detected = ""
    /\ actual_crop = ""
    /\ affected_area_pct = 0
    /\ llm = NoLlm
    /\ result = NoResult
    /\ stages = {}
    /\ pc = "check"

SpecReconcile == InitReconcile /\ [][CheckDetection \/ Reconcile]_vars

\* Lines 81-85 on every class label and every declared crop.
InitNormalize ==
    /\ enable_llm_fallback = TRUE
    /\ classifier = << DiseaseClassifier("trained", 1) >>
    /\ instances = 1
    /\ requests = << >>
    /\ groq_client = << >>
    /\ database = [keys |-> DISEASE_KEYS, entries |-> DISEASE_DATABASE]
    /\ image = "bytes"
    /\ crop_type \in DeclaredCrops
    /\ weather = [pending |-> TRUE]
    /\ time_ctx = [pending |-> TRUE]
    /\ model_input = NoModelInput
    /\ detection = NoDetection
    /\ detected_disease \in { classes[i] : i \in 1..Len(classes) }
    /\ confidence = 0
    /\ low_confidence = FALSE
    /\ crop_detected = ""
    /\ actual_crop = ""
    /\ affected_area_pct = 0
    /\ llm = NoLlm
    /\ result = NoResult
    /\ stages = {}
    /\ pc = "normalize"

Normalize ==
    /\ pc = "normalize"
    /\ result' = [detected_crop_from_disease |-> detected_crop_from_disease(detected_disease),
                  user_crop_normalized       |-> user_crop_normalized(crop_type),
                  detected_crop_normalized   |-> detected_crop_normalized(detected_disease)]
    /\ pc' = "normalized"
    /\ UNCHANGED << process_vars, request_vars, llm, stages >>

SpecNormalize == InitNormalize /\ [][Normalize]_vars

\* Lines 74-119 applied once more, to the label they produced, with the
\* same declared crop.
ReconcileAgain ==
    /\ pc = "gate"
    /\ result' = [label |-> ReconciledDisease(database.keys, detected_disease, crop_type)]
    /\ pc' = "reconciled_again"
    /\ UNCHANGED << process_vars, request_vars, llm, stages >>

SpecReconcileAgain ==
    InitReconcile /\ [][CheckDetection \/ Reconcile \/ ReconcileAgain]_vars

\* Lines 61-180 on every class label and every declared crop: from the
\* result of predict to the returned report.
SpecReport == InitReconcile /\ [][CheckDetection \/ Reconcile \/ Gate \/ Resolve]_vars

\* Class names without "___", as a classes.json may list them.
UnseparatedLabels == { "Background_without_leaves", "Tomato__Early_blight", "Corn", "healthy" }

\* Lines 61-180 on a trained prediction whose class name has no "___", for
\* every declared crop.
InitUnseparated ==
    /\ enable_llm_fallback = TRUE
    /\ classifier = << DiseaseClassifier("trained", 1) >>
    /\ instances = 1
    /\ requests = << >>
    /\ groq_client = << >>
    /\ database = [keys |-> DISEASE_KEYS, entries |-> DISEASE_DATABASE]
    /\ image = "bytes"
    /\ crop_type \in DeclaredCrops \cup { "" }
    /\ weather \in WeatherValues
    /\ time_ctx = get_time_context(4)
    /\ model_input = ModelInput(TRUE, FALSE, NoFeatures, 0, 93)
    /\ \E class_name \in UnseparatedLabels :
          detection = [disease |-> class_name,
                       disease_name |-> DiseaseNameOf(class_name),
                       crop_detected |-> CropFromPrediction(class_name),
                       confidence |-> 93,
                       is_healthy |-> IsHealthy(class_name),
                       low_confidence |-> 93 < CONFIDENCE_THRESHOLD,
                       confidence_threshold |-> CONFIDENCE_THRESHOLD]
    /\ detected_disease = ""
    /\ confidence = 0
    /\ low_confidence = FALSE
    /\ crop_detected = ""
    /\ actual_crop = ""
    /\ affected_area_pct = 0
    /\ llm = NoLlm
    /\ result = NoResult
    /\ stages = {}
    /\ pc = "check"

SpecUnseparated ==
    InitUnseparated /\ [][CheckDetection \/ Reconcile \/ Gate \/ Resolve]_vars

(***************************************************************************)
(* Concurrent analyze_disease calls on one event loop                      *)
(***************************************************************************)

\* Number of analyze_disease calls that can be in flight together.
NumRequests == 3

RequestIds == 1..NumRequests

\* A call not in flight holds no classifier.
IdleRequest == [pc |-> "idle", classifier |-> << >>]

InitConcurrent ==
    /\ enable_llm_fallback = TRUE
    /\ classifier = << >>
    /\ instances = 0
    /\ requests = [r \in RequestIds |-> IdleRequest]
    /\ groq_client = << >>
    /\ database = [keys |-> DISEASE_KEYS, entries |-> DISEASE_DATABASE]
    /\ pc = "idle"
    /\ image = "none"
    /\ crop_type = ""
    /\ RequestDefaults
    /\ llm = NoLlm
    /\ result = NoResult
    /\ stages = {}

\* The route handler calls analyze_disease, which runs to its first await
\* (line 36).
Arrive(r) ==
    /\ requests[r].pc = "idle"
    /\ requests' = [requests EXCEPT ![r].pc = "weather"]
    /\ UNCHANGED << classifier, instances >>

\* The call resumes after line 36 and runs lines 39-42 without suspending:
\* get_disease_classifier() is an ordinary function.  With an UploadFile it
\* suspends at line 46; with bytes it calls predict and suspends at line 158
\* or returns; when the constructor raises it returns the failure result.
ResumeFromWeather(r) ==
    /\ requests[r].pc = "weather"
    /\ \E outcome \in LoadOutcomes :
          LET got == get_disease_classifier(classifier, instances, outcome)
          IN  /\ classifier' = got.global
              /\ instances' = got.constructed
              /\ \/ /\ got.returned # << >>
                    /\ \E next \in { "seek", "scrape" } :
                          requests' = [requests EXCEPT
                                          ![r] = [pc |-> next,
                                                  classifier |-> got.returned]]
                 \/ /\ got.returned = << >>
                    /\ requests' = [requests EXCEPT ![r] = IdleRequest]

\* The call resumes after line 46 and calls predict on the instance it
\* holds (line 48); it suspends at line 158 or returns.
ResumeFromSeek(r) ==
    /\ requests[r].pc = "seek"
    /\ \/ requests' = [requests EXCEPT ![r].pc = "scrape"]
       \/ requests' = [requests EXCEPT ![r] = IdleRequest]
    /\ UNCHANGED << classifier, instances >>

\* The call resumes after line 158 and returns.
ResumeFromScrape(r) ==
    /\ requests[r].pc = "scrape"
    /\ requests' = [requests EXCEPT ![r] = IdleRequest]
    /\ UNCHANGED << classifier, instances >>

NextConcurrent ==
    /\ \E r \in RequestIds :
          \/ Arrive(r)
          \/ ResumeFromWeather(r)
          \/ ResumeFromSeek(r)
          \/ ResumeFromScrape(r)
    /\ UNCHANGED << enable_llm_fallback, groq_client, database, request_vars, pc,
                    llm, result, stages >>

SpecConcurrent == InitConcurrent /\ [][NextConcurrent]_vars

(***************************************************************************)
(* Properties of analyze_disease                                           *)
(***************************************************************************)

\* The call in progress is a call of analyze_disease.
AnalyzeCall == image # "none"

\* analyze_disease has returned, and predict had returned a result without an
\* error whose confidence is below 0.40 or whose low_confidence flag is set.
LowConfidenceDetection ==
    /\ AnalyzeCall
    /\ pc = "done"
    /\ detection # NoDetection
    /\ "error" \notin DOMAIN detection
    /\ (detection.confidence < CONFIDENCE_THRESHOLD
          \/ Get(detection, "low_confidence", FALSE))

GuidanceTreatment ==
    << "The image quality or lighting is insufficient for accurate diagnosis",
       "Please upload a clearer, well-lit image of the affected plant part",
       "Ensure the diseased area is clearly visible and in focus",
       "Take photo in natural daylight if possible" >>

\* C1 as stated: for a classifier result without an error and of low
\* confidence, the report has the low-confidence flag, the name "Uncertain",
\* the measured confidence, and empty treatment and symptom lists.
C1_LowConfidenceReportHasEmptyLists ==
    LowConfidenceDetection =>
        /\ Get(result, "disease_name", "") = "Uncertain"
        /\ Get(result, "low_confidence_warning", FALSE)
        /\ Get(result, "confidence", -1) = detection.confidence
        /\ Get(result, "treatment", << >>) = << >>
        /\ Get(result, "symptoms", << >>) = << >>

\* C1 amended: for a classifier result without an error and of low
\* confidence, the report has success, the low-confidence flag, the name
\* "Uncertain", the measured confidence, the four guidance strings as its
\* treatment list, and no symptoms field.
C1_LowConfidenceReportHasGuidance ==
    LowConfidenceDetection =>
        /\ Get(result, "disease_name", "") = "Uncertain"
        /\ Get(result, "success", FALSE)
        /\ Get(result, "low_confidence_warning", FALSE)
        /\ Get(result, "confidence", -1) = detection.confidence
        /\ Get(result, "treatment", << >>) = GuidanceTreatment
        /\ "symptoms" \notin DOMAIN result

C1_Witness ==
    /\ LowConfidenceDetection
    /\ detection.confidence = 39
    /\ result.disease_name = "Uncertain"
    /\ Len(result.treatment) = 4

MissAfterGate ==
    /\ AnalyzeCall
    /\ pc = "done"
    /\ "gate_passed" \in stages
    /\ ~Truthy(get_disease_info(database, detected_disease))

\* C3 as stated: when the gate has passed and the reconciled label has no
\* entry in the knowledge base, generate_validated_treatment_plan has been
\* called before the report is assembled.
C3_MissInvokesGenerativeFallback ==
    MissAfterGate => "generative_call" \in stages

\* C4 as stated: in a process with fallback mode enabled whose generative
\* client has no API key (every generative call comes back as canned text),
\* a diagnosis that needs the generative path returns success = true with
\* data_source "AI Analysis".
C4_CannedTextYieldsAIAnalysisReport ==
    (/\ MissAfterGate
     /\ enable_llm_fallback
     /\ groq_client = << [async_client |-> FALSE] >>)
    => /\ Get(result, "success", FALSE)
       /\ Get(result, "data_source", "") = "AI Analysis"

\* The trained model has yielded a class index outside the class table.
IndexOutOfRange ==
    /\ AnalyzeCall
    /\ pc \in { "check", "done" }
    /\ classifier # << >>
    /\ classifier[1].model_trained
    /\ model_input.decodable
    /\ ~model_input.raises
    /\ model_input.predicted_idx >= Len(classes)

AnnotatedUnknown ==
    /\ detection.disease = "Unknown"
    /\ detection.confidence = model_input.confidence_value
    /\ Get(detection, "low_confidence", FALSE)
    /\ "error" \in DOMAIN detection

ReconciledMismatch ==
    /\ pc = "gate"
    /\ crop_type # ""
    /\ CropsMismatch(detection.disease, crop_type)

LookupStages ==
    { "kb_lookup", "kb_hit", "kb_miss", "treatment_resolved", "severity_computed",
      "generative_call" }

CompoundBranchSet ==
    { "Tomato___Bacterial_spot", "Tomato___Early_blight", "Potato___Late_blight",
      "Tomato___healthy", "Tomato___Target_Spot" }

\* predict in simulation mode has returned for a feature vector with edge
\* intensity above 45.
HighEdgeSimulated ==
    /\ pc = "check"
    /\ ~classifier[1].model_trained
    /\ model_input.decodable
    /\ ~model_input.raises
    /\ model_input.features.edge_intensity > 450

\* The first test of the decision tree.
LongLeafBranch(f) == is_long_leaf(f) /\ (yellow_indicator(f) \/ brown_indicator(f))

\* C8 as stated: for every feature vector with edge intensity above 45 the
\* heuristic returns a label of the compound-leaf branch set.
C8_HighEdgeGivesCompoundLabel ==
    HighEdgeSimulated => detection.disease \in CompoundBranchSet

\* C8 amended: for every feature vector with edge intensity above 45 that is
\* not a long leaf (aspect ratio above 1.5 or below 0.6) with a yellow or
\* brown indicator, the heuristic returns a label of the compound-leaf
\* branch set; for the long leaves with such an indicator it returns a corn
\* label.
C8_HighEdgeGivesCompoundLabelUnlessLongLeaf ==
    HighEdgeSimulated =>
        IF LongLeafBranch(model_input.features)
        THEN detection.disease \in { "Corn_(maize)___Common_rust_",
                                     "Corn_(maize)___Northern_Leaf_Blight" }
        ELSE detection.disease \in CompoundBranchSet

C8_Witness ==
    /\ HighEdgeSimulated
    /\ model_input.features.edge_intensity = 451
    /\ is_long_leaf(model_input.features)
    /\ ~LongLeafBranch(model_input.features)
    /\ detection.disease = "Tomato___Target_Spot"

\* C9: calculate_severity maps p to Low when p < 15, to Medium when
\* 15 <= p < 35 and to High when p >= 35; 14 -> Low, 15 -> Medium,
\* 34 -> Medium, 35 -> High, and every p of 5..45 gets exactly one tier.
C9_SeverityTiers ==
    pc = "severity_done" =>
        LET p == affected_area_pct
            s == result.severity
        IN  /\ p < 15 => s = "Low"
            /\ (15 <= p /\ p < 35) => s = "Medium"
            /\ p >= 35 => s = "High"
            /\ p = 14 => s = "Low"
            /\ p = 15 => s = "Medium"
            /\ p = 34 => s = "Medium"
            /\ p = 35 => s = "High"
            /\ p \in MIN_AREA_PCT..MAX_AREA_PCT =>
                  Cardinality({ t \in { "Low", "Medium", "High" } : t = s }) = 1

C9_Witness ==
    /\ pc = "severity_done"
    /\ affected_area_pct = 15
    /\ result.severity = "Medium"

\* C10: for every label of the class table and every key of the knowledge
\* base, the crop and the disease that predict splits off at "___", joined
\* again by "___", are the label.
C10_LabelRoundTrip ==
    pc = "label_joined" => result.label = detected_disease

C10_Witness ==
    /\ pc = "label_joined"
    /\ detected_disease = "Corn_(maize)___Cercospora_leaf_spot Gray_leaf_spot"
    /\ detection.crop_detected = "Corn_(maize)"
    /\ result.label = detected_disease

(***************************************************************************)
(* Properties of the failure paths of the classifier                       *)
(***************************************************************************)

\* predict has returned for an image that Image.open cannot decode.
UndecodableImage ==
    /\ AnalyzeCall
    /\ pc \in { "check", "done" }
    /\ detection # NoDetection
    /\ ~model_input.decodable

\* C11: when the image cannot be decoded, predict returns an error record,
\* analyze_disease returns success = false with the message asking for a
\* clear image, and the request has done no reconciliation, no lookup in the
\* knowledge base, no generative call and no severity computation.
C11_UndecodableImageAborts ==
    UndecodableImage =>
        /\ "error" \in DOMAIN detection
        /\ stages = {}
        /\ detected_disease = ""
        /\ actual_crop = ""
        /\ affected_area_pct = 0
        /\ llm = NoLlm
        /\ pc = "done" =>
              /\ result = DetectionErrorResult
              /\ ~result.success
              /\ StrIn("upload a clear image", result.error)

C11_Witness ==
    /\ UndecodableImage
    /\ pc = "done"
    /\ crop_type = "Tomato"
    /\ result = DetectionErrorResult

\* predict has returned for a decodable image in a process whose weights
\* were absent or failed to load.
UntrainedPrediction ==
    /\ AnalyzeCall
    /\ pc \notin { "idle", "weather", "classifier", "predict" }
    /\ classifier # << >>
    /\ ~classifier[1].model_trained
    /\ detection # NoDetection
    /\ model_input.decodable

\* C12: when the weights are absent or fail to load, every predict call on a
\* decodable image returns the result of the heuristic with simulation_mode
\* true and no error annotation, never the result of trained inference, and
\* the report analyze_disease returns is a success without an error field.
C12_UntrainedDegradesToHeuristic ==
    UntrainedPrediction =>
        /\ Get(detection, "simulation_mode", FALSE)
        /\ "error" \notin DOMAIN detection
        /\ detection # TrainedPrediction(model_input.predicted_idx,
                                         model_input.confidence_value)
        /\ detection.disease \in { classes[i] : i \in 1..Len(classes) }
        /\ pc = "done" =>
              /\ Get(result, "success", FALSE)
              /\ "error" \notin DOMAIN result

C12_Witness ==
    /\ UntrainedPrediction
    /\ pc = "done"
    /\ detection.disease = "Tomato___Bacterial_spot"
    /\ result.success
    /\ result.data_source = "Agricultural Disease Database"

(***************************************************************************)
(* Properties of GroqLLMClient                                             *)
(***************************************************************************)

\* A step of generate_completion in which the API call of a configured client
\* fails while fallback mode is disabled.
FailedAttemptWithoutFallback ==
    /\ pc = "llm_attempt"
    /\ groq_client[1].async_client
    /\ ~enable_llm_fallback
    /\ llm'.response \notin ApiContents

\* C13: generate_completion never makes more than 3 attempts; it waits for
\* another attempt only with fallback mode disabled and fewer than 3
\* attempts made; and with fallback mode disabled a failed attempt is
\* followed by a wait when it was the first or second and by the raise of
\* RetryError, without a returned value, when it was the third.
C13_RetryBound ==
    /\ [](llm.attempt <= MAX_ATTEMPTS)
    /\ [][(pc = "llm_attempt" /\ pc' = "llm_wait") =>
            (~enable_llm_fallback /\ llm.attempt < MAX_ATTEMPTS)]_vars
    /\ [][FailedAttemptWithoutFallback =>
            IF llm.attempt < MAX_ATTEMPTS
            THEN pc' = "llm_wait" /\ llm' = llm
            ELSE /\ llm.attempt = MAX_ATTEMPTS
                 /\ pc' = "done"
                 /\ result' = [raised |-> "RetryError"]]_vars

C13_Witness ==
    /\ pc = "done"
    /\ llm.caller = "service"
    /\ ~enable_llm_fallback
    /\ llm.attempt = MAX_ATTEMPTS
    /\ result = [raised |-> "RetryError"]

\* C14 as stated: with fallback mode enabled, the canned text that follows a
\* failed API attempt is returned only after the third attempt.
C14_CannedTextOnlyAfterLastAttempt ==
    (/\ pc = "llm_parse"
     /\ enable_llm_fallback
     /\ groq_client[1].async_client
     /\ llm.response = FallbackText)
    => llm.attempt = MAX_ATTEMPTS

\* C15 as stated: with fallback mode enabled, a generate_structured call
\* whose completion came back as canned text (the API failed, or no client
\* is configured) returns a map to its caller.
C15_CannedTextIsReturnedAsMap ==
    (/\ pc = "done"
     /\ llm.caller = "service"
     /\ enable_llm_fallback
     /\ llm.response = FallbackText)
    => "returned" \in DOMAIN result

(***************************************************************************)
(* Properties of the shared state of the process                           *)
(***************************************************************************)

\* The concurrent calls that hold a classifier.
Holders == { r \in DOMAIN requests : requests[r].classifier # << >> }

\* C16: across the interleavings of concurrent analyze_disease calls at most
\* one DiseaseClassifier is ever constructed and none before the first call of
\* get_disease_classifier; the module attribute, once set, never changes;
\* and every call in flight that obtained a classifier holds that one
\* instance.
C16_ClassifierConstructedOnce ==
    /\ [](/\ instances <= 1
          /\ (instances = 0) <=> (classifier = << >>)
          /\ classifier # << >> => classifier[1].serial = 1
          /\ \A r \in Holders : requests[r].classifier = classifier)
    /\ [][classifier # << >> => classifier' = classifier]_vars
    /\ [][classifier' # classifier =>
            \E r \in RequestIds : /\ requests[r].pc = "weather"
                                  /\ requests'[r].classifier = classifier']_vars

C16_Witness ==
    /\ instances = 1
    /\ requests[1].pc = "scrape"
    /\ requests[2].pc = "seek"
    /\ requests[3].pc = "weather"
    /\ requests[1].classifier = classifier
    /\ requests[2].classifier = classifier

\* The table as disease_scraper.py defines it.
InitialDatabase == [keys |-> DISEASE_KEYS, entries |-> DISEASE_DATABASE]

\* C17: whatever calls have run (failures, low-confidence returns, crop
\* reconciliation with or without remapping, lookups that hit or miss), the
\* keys of DISEASE_DATABASE, their order and every entry are those of the
\* table as defined.
C17_KnowledgeBaseUnchanged == database = InitialDatabase

C17_Witness ==
    /\ pc = "done"
    /\ { "kb_keys_read", "remapped", "kb_lookup", "kb_miss" } \subseteq stages
    /\ detected_disease = SynthesizedLabel(crop_type)
    /\ database = InitialDatabase

(***************************************************************************)
(* Properties of crop reconciliation                                       *)
(***************************************************************************)

\* Crop reconciliation has run on the label predict returned.
Reconciled == pc = "gate" /\ "disease" \in DOMAIN detection

\* One of the two normalized crop strings of the call contains the other.
NormalizedCropsOverlap ==
    \/ StrIn(user_crop_normalized(crop_type), detected_crop_normalized(detection.disease))
    \/ StrIn(detected_crop_normalized(detection.disease), user_crop_normalized(crop_type))

\* C18: after crop reconciliation, with no declared crop the label is the
\* one predict returned and actual_crop is the crop predict detected; with
\* one normalized crop string contained in the other the label is the one
\* predict returned; and a label that differs from the one predict returned
\* comes with a declared crop and normalized crop strings neither of which
\* contains the other.
C18_LabelKeptUnlessMismatch ==
    Reconciled =>
        /\ crop_type = "" =>
              (detected_disease = detection.disease /\ actual_crop = crop_detected)
        /\ NormalizedCropsOverlap => detected_disease = detection.disease
        /\ detected_disease # detection.disease =>
              (crop_type # "" /\ ~NormalizedCropsOverlap)

C18_Witness ==
    /\ Reconciled
    /\ crop_type = "Bell Pepper"
    /\ detection.disease = "Pepper,_bell___Bacterial_spot"
    /\ NormalizedCropsOverlap
    /\ detected_disease = detection.disease
    /\ actual_crop = "Bell Pepper"

\* Lines 84-85 have run.
Normalized == pc = "normalized"

\* C19 as stated: normalization turns "Corn_(maize)" into "corn" and
\* "Pepper,_bell" into "pepper_bell", and leaves no parenthetical qualifier
\* in the normalized crop of a class label.
C19_NormalizationStripsQualifiers ==
    Normalized =>
        /\ result.detected_crop_from_disease = "Corn_(maize)" =>
              result.detected_crop_normalized = "corn"
        /\ result.detected_crop_from_disease = "Pepper,_bell" =>
              result.detected_crop_normalized = "pepper_bell"
        /\ ~StrIn("(", result.detected_crop_normalized)

\* The crops of the class table with what line 85 makes of them.
NormalizedClassCrops ==
    { << "Apple", "apple" >>, << "Blueberry", "blueberry" >>,
      << "Cherry_(including_sour)", "cherry_(including_sour)" >>,
      << "Corn_(maize)", "corn" >>, << "Grape", "grape" >>,
      << "Orange", "orange" >>, << "Peach", "peach" >>,
      << "Pepper,_bell", "pepper" >>, << "Potato", "potato" >>,
      << "Raspberry", "raspberry" >>, << "Soybean", "soybean" >>,
      << "Squash", "squash" >>, << "Strawberry", "strawberry" >>,
      << "Tomato", "tomato" >> }

\* Character by character: s with every space replaced by an underscore
\* and every upper-case letter by its lower-case letter.
LoweredAndUnderscored(s, t) ==
    /\ Len(t) = Len(s)
    /\ \A i \in 1..Len(s) :
          SubSeq(t, i, i) = IF SubSeq(s, i, i) = " " THEN "_"
                            ELSE LowerChar(SubSeq(s, i, i))

\* C19 amended: the declared crop is lower-cased with its spaces replaced by
\* underscores and nothing is stripped from it; the detected crop is
\* lower-cased and loses exactly the substrings "_(maize)" and ",_bell", so
\* that "Corn_(maize)" gives "corn", "Pepper,_bell" gives "pepper" and
\* "Cherry_(including_sour)" gives "cherry_(including_sour)".
C19_NormalizationAsCoded ==
    Normalized =>
        /\ << result.detected_crop_from_disease, result.detected_crop_normalized >>
              \in NormalizedClassCrops
        /\ LoweredAndUnderscored(crop_type, result.user_crop_normalized)

C19_Witness ==
    /\ Normalized
    /\ crop_type = "Bell Pepper"
    /\ result.user_crop_normalized = "bell_pepper"
    /\ result.detected_crop_from_disease = "Pepper,_bell"
    /\ result.detected_crop_normalized = "pepper"

\* Smallest element of a non-empty set of indexes.
MinIndex(S) == CHOOSE i \in S : \A j \in S : i <= j

\* Disease-type component of a label.
TypeComponent(key) == StrSplit(key, SEP)[2]

\* The keys whose crop component equals the declared crop, equality being
\* taken on the normalized crop strings of lines 84-85.
KeysOfDeclaredCrop ==
    { i \in 1..Len(database.keys) :
        detected_crop_normalized(database.keys[i]) = user_crop_normalized(crop_type) }

\* Among them, the keys whose disease-type component contains the disease
\* type of the label predict returned.
KeysOfDeclaredCropAndType ==
    { i \in KeysOfDeclaredCrop :
        StrIn(TypeComponent(detection.disease), TypeComponent(database.keys[i])) }

\* C20 as stated: on a crop mismatch the label becomes the first key of the
\* declared crop whose disease-type component contains the detected disease
\* type, else the first key of the declared crop, else
\* "<declared crop>___Unknown_disease".
C20_ReplacementAmongKeysOfDeclaredCrop ==
    ReconciledMismatch =>
        detected_disease =
            IF KeysOfDeclaredCrop = {} THEN crop_type \o "___Unknown_disease"
            ELSE IF KeysOfDeclaredCropAndType # {}
                 THEN database.keys[MinIndex(KeysOfDeclaredCropAndType)]
            ELSE database.keys[MinIndex(KeysOfDeclaredCrop)]

\* The keys that contain the declared crop, case-insensitively.
KeysContainingDeclaredCrop ==
    { i \in 1..Len(database.keys) :
        StrIn(StrLower(crop_type), StrLower(database.keys[i])) }

\* Among them, the keys that contain the disease type of the label predict
\* returned, case-insensitively.
KeysContainingCropAndType ==
    { i \in KeysContainingDeclaredCrop :
        StrIn(StrLower(TypeComponent(detection.disease)), StrLower(database.keys[i])) }

\* C20 amended: on a crop mismatch the candidates are the keys that contain
\* the declared crop anywhere, case-insensitively; the label becomes the
\* first candidate that contains the detected disease type anywhere,
\* case-insensitively, else the first candidate, else
\* "<declared crop>___Unknown_disease".
C20_ReplacementAmongKeysContainingCrop ==
    ReconciledMismatch =>
        detected_disease =
            IF KeysContainingDeclaredCrop = {} THEN crop_type \o "___Unknown_disease"
            ELSE IF KeysContainingCropAndType # {}
                 THEN database.keys[MinIndex(KeysContainingCropAndType)]
            ELSE database.keys[MinIndex(KeysContainingDeclaredCrop)]

C20_Witness ==
    /\ ReconciledMismatch
    /\ crop_type = "Tomato"
    /\ detection.disease = "Potato___Late_blight"
    /\ KeysContainingDeclaredCrop = { 3, 4, 5 }
    /\ detected_disease = "Tomato___Late_blight"

(***************************************************************************)
(* Properties of the returned report                                       *)
(***************************************************************************)

\* analyze_disease has returned a report for a label that is a key of
\* DISEASE_DATABASE.
KnowledgeHitReport ==
    /\ AnalyzeCall
    /\ pc = "done"
    /\ "kb_hit" \in stages

\* C21: a report for a label that is a key of DISEASE_DATABASE carries the
\* symptoms, treatment, prevention, severity and recovery window stored
\* under that label, and names the label.
C21_HitReportCarriesEntry ==
    KnowledgeHitReport =>
        /\ detected_disease \in DOMAIN InitialDatabase.entries
        /\ Get(result, "disease_name", "") = detected_disease
        /\ Get(result, "symptoms", << >>) = InitialDatabase.entries[detected_disease].symptoms
        /\ Get(result, "treatment", << >>)
              = InitialDatabase.entries[detected_disease].treatment
        /\ Get(result, "prevention", << >>)
              = InitialDatabase.entries[detected_disease].prevention
        /\ Get(result, "severity", "")
              = InitialDatabase.entries[detected_disease].severity
        /\ Get(result, "expected_recovery", "")
              = InitialDatabase.entries[detected_disease].recovery_days

C21_Witness ==
    /\ KnowledgeHitReport
    /\ detected_disease = "Apple___Black_rot"
    /\ result.severity = "Moderate to High"
    /\ result.expected_recovery = "Season-long management"
    /\ Len(result.symptoms) = 3

\* analyze_disease has returned the full report: the confidence gate was
\* passed.
FullReport ==
    /\ AnalyzeCall
    /\ pc = "done"
    /\ "gate_passed" \in stages
    /\ Get(result, "success", FALSE)

Simulated ==
    /\ AnalyzeCall
    /\ pc \in { "check", "reconcile", "gate", "resolve", "done" }
    /\ classifier # << >>
    /\ ~classifier[1].model_trained
    /\ model_input.decodable
    /\ ~model_input.raises

\* The features show a compound texture and dark lesions.
HighEdgeDarkSpots ==
    /\ model_input.features.edge_intensity > 450
    /\ model_input.features.r < 80
    /\ model_input.features.g < 80
    /\ model_input.features.b < 80

\* C23: for features with edge intensity above 45 and all of r, g, b below
\* 80, whatever the aspect ratio, the heuristic classifier returns
\* "Tomato___Bacterial_spot" with confidence 0.83 and is_healthy false, and
\* with no declared crop the report names that label.
C23_DarkSpotsOnCompoundLeaf ==
    (Simulated /\ HighEdgeDarkSpots) =>
        /\ Get(detection, "disease", "") = "Tomato___Bacterial_spot"
        /\ Get(detection, "confidence", 0) = 83
        /\ Get(detection, "is_healthy", TRUE) = FALSE
        /\ (pc = "done" /\ crop_type = "") =>
              /\ Get(result, "success", FALSE)
              /\ Get(result, "disease_name", "") = "Tomato___Bacterial_spot"
              /\ Get(result, "confidence", 0) = 83

C23_Witness ==
    /\ Simulated
    /\ HighEdgeDarkSpots
    /\ model_input.features.aspect_ratio = 16
    /\ model_input.features.edge_intensity = 451
    /\ pc = "done"
    /\ crop_type = ""
    /\ result.disease_name = "Tomato___Bacterial_spot"

\* predict has run _intelligent_simulation on a decodable image.
HeuristicResult ==
    /\ AnalyzeCall
    /\ pc \in { "check", "reconcile", "gate", "resolve", "done" }
    /\ classifier # << >>
    /\ ~classifier[1].model_trained
    /\ model_input.decodable

\* The labels of the branches of _intelligent_simulation with the
\* confidence constant, in hundredths, written next to each.
BranchConstants ==
    { << "Corn_(maize)___Common_rust_", 85 >>,
      << "Corn_(maize)___Northern_Leaf_Blight", 82 >>,
      << "Tomato___Bacterial_spot", 83 >>,
      << "Tomato___Early_blight", 79 >>,
      << "Potato___Late_blight", 81 >>,
      << "Tomato___healthy", 78 >>,
      << "Tomato___Target_Spot", 72 >>,
      << "Grape___Black_rot", 75 >>,
      << "Apple___Black_rot", 76 >>,
      << "Pepper,_bell___Bacterial_spot", 74 >>,
      << "Squash___Powdery_mildew", 80 >>,
      << "Grape___Esca_(Black_Measles)", 68 >>,
      << "Tomato___Early_blight", 65 >>,
      << "Potato___Early_blight", 62 >> }

\* C24: a result of the heuristic classifier carries a label with the
\* confidence constant of a branch that returns that label, between 0.62
\* and 0.85; is_healthy is true exactly when the label contains "healthy";
\* low_confidence is false; and the diagnosis does not end in the
\* "Uncertain" report.
C24_HeuristicConfidenceIsBranchConstant ==
    HeuristicResult =>
        /\ << Get(detection, "disease", ""), Get(detection, "confidence", 0) >>
              \in BranchConstants
        /\ Get(detection, "confidence", 0) \in 62..85
        /\ Get(detection, "is_healthy", FALSE)
              <=> StrIn("healthy", Get(detection, "disease", ""))
        /\ Get(detection, "low_confidence", TRUE) = FALSE
        /\ "gate_low" \notin stages
        /\ pc = "done" =>
              /\ Get(result, "disease_name", "") # "Uncertain"
              /\ "low_confidence_warning" \notin DOMAIN result

C24_Witness ==
    /\ HeuristicResult
    /\ pc = "done"
    /\ detection.disease = "Tomato___healthy"
    /\ detection.confidence = 78
    /\ detection.is_healthy
    /\ result.disease_name = "Tomato___healthy"

\* The analysis of _intelligent_simulation raised inside its try block.
HeuristicFailure == HeuristicResult /\ model_input.raises

\* C25: when the heuristic analysis fails internally the result of predict
\* is the label "Tomato___Early_blight" with confidence 0.65,
\* simulation_mode true, low_confidence false and no error key, and
\* analyze_disease goes on to return a successful report with that
\* confidence, for that label when no crop is declared.
C25_HeuristicFailureGivesDefaultLabel ==
    HeuristicFailure =>
        /\ "error" \notin DOMAIN detection
        /\ Get(detection, "disease", "") = "Tomato___Early_blight"
        /\ Get(detection, "confidence", 0) = 65
        /\ Get(detection, "simulation_mode", FALSE) = TRUE
        /\ Get(detection, "low_confidence", TRUE) = FALSE
        /\ pc = "done" =>
              /\ Get(result, "success", FALSE)
              /\ "error" \notin DOMAIN result
              /\ Get(result, "confidence", 0) = 65
              /\ crop_type = "" =>
                    Get(result, "disease_name", "") = "Tomato___Early_blight"

C25_Witness ==
    /\ HeuristicFailure
    /\ pc = "done"
    /\ crop_type = ""
    /\ result.disease_name = "Tomato___Early_blight"
    /\ result.data_source = "Agricultural Disease Database"

(***************************************************************************)
(* Properties of the confidence gate and of the confidence                 *)
(***************************************************************************)

\* predict returned a result without an error key.
ErrorFreeDetection ==
    /\ AnalyzeCall
    /\ detection # NoDetection
    /\ "error" \notin DOMAIN detection

\* C26: for a result of predict without an error key, low_confidence is
\* true exactly when the confidence is below 0.40, and once the gate has
\* been evaluated the call has taken the low-confidence return exactly
\* when the confidence is below 0.40: a confidence of 0.40 passes.
C26_GateExactAtThreshold ==
    ErrorFreeDetection =>
        /\ Get(detection, "low_confidence", FALSE) <=> detection.confidence < 40
        /\ pc \in { "resolve", "done" } =>
              /\ "gate_low" \in stages <=> detection.confidence < 40
              /\ "gate_passed" \in stages <=> detection.confidence >= 40
        /\ pc = "done" =>
              (Get(result, "disease_name", "") = "Uncertain"
                 <=> detection.confidence < 40)

C26_Witness ==
    /\ ErrorFreeDetection
    /\ pc = "done"
    /\ detection.confidence = 40
    /\ ~detection.low_confidence
    /\ "gate_passed" \in stages
    /\ result.confidence = 40
    /\ result.disease_name = detected_disease

\* The results of the last else of the decision tree (lines 275-281).
AmbiguousShapeResults ==
    { << "Tomato___Early_blight", 65 >>, << "Potato___Early_blight", 62 >> }

\* C27: every edge intensity is above 45, below 30 or from 30 to 45, so
\* the decision tree never returns a result of its last else: no result
\* with confidence 0.62, none with 0.65, and never "Potato___Early_blight".
C27_AmbiguousShapeBranchUnreachable ==
    Simulated =>
        /\ \/ model_input.features.edge_intensity > 450
           \/ model_input.features.edge_intensity < 300
           \/ model_input.features.edge_intensity \in 300..450
        /\ << Get(detection, "disease", ""), Get(detection, "confidence", 0) >>
              \notin AmbiguousShapeResults
        /\ Get(detection, "confidence", 0) \notin { 62, 65 }
        /\ Get(detection, "disease", "") # "Potato___Early_blight"

C27_Witness ==
    /\ Simulated
    /\ model_input.features.edge_intensity = 450
    /\ model_input.features.aspect_ratio = 10
    /\ model_input.features.r = 201
    /\ model_input.features.g = 130
    /\ model_input.features.b = 40
    /\ detection.disease = "Apple___Black_rot"

\* analyze_disease has returned a successful report for a result of predict.
SuccessReport ==
    /\ ErrorFreeDetection
    /\ pc = "done"
    /\ Get(result, "success", FALSE)

\* C28: the confidence of a successful report, in the report and in its
\* context, is the confidence of the result predict returned, also when
\* crop reconciliation replaced the label.
C28_ReconciliationKeepsConfidence ==
    SuccessReport =>
        /\ Get(result, "confidence", -1) = detection.confidence
        /\ "gate_passed" \in stages =>
              Get(result.context_used, "confidence", -1) = detection.confidence

C28_Witness ==
    /\ SuccessReport
    /\ crop_type = "Tomato"
    /\ detection.disease = "Corn_(maize)___Common_rust_"
    /\ detected_disease = "Tomato___Early_blight"
    /\ result.disease_name = "Tomato___Early_blight"
    /\ detection.confidence = 93
    /\ result.confidence = 93

\* C29: crop reconciliation applied to the label it produced, with the same
\* declared crop, returns that label.
C29_ReconciliationIdempotent ==
    pc = "reconciled_again" => Get(result, "label", "") = detected_disease

C29_Witness ==
    /\ pc = "reconciled_again"
    /\ crop_type = "Maize"
    /\ detection.disease = "Apple___Apple_scab"
    /\ detected_disease = "Corn_(maize)___Common_rust_"
    /\ CropsMismatch(detected_disease, crop_type)
    /\ result.label = "Corn_(maize)___Common_rust_"

\* predict returned a label without "___" and crop reconciliation has run.
UnseparatedReconciled ==
    /\ ErrorFreeDetection
    /\ ~StrIn("___", detection.disease)
    /\ pc \in { "gate", "resolve", "done" }

\* C30: a label without "___" comes out of crop reconciliation as it went
\* in, whatever crop is declared, and is the label that is looked up and
\* reported.
C30_UnseparatedLabelNotRemapped ==
    UnseparatedReconciled =>
        /\ detected_disease = detection.disease
        /\ "remapped" \notin stages
        /\ actual_crop = (IF crop_type = "" THEN "Unknown" ELSE crop_type)
        /\ pc = "done" =>
              /\ "kb_lookup" \in stages
              /\ Get(result, "disease_name", "") = detection.disease
              /\ result = DatabaseReport(detection.disease, 93, affected_area_pct,
                             scrape_disease_treatment(database, detection.disease,
                                                      actual_crop),
                             "Unknown", actual_crop, weather, time_ctx)

C30_Witness ==
    /\ UnseparatedReconciled
    /\ pc = "done"
    /\ crop_type = "Rice"
    /\ detection.disease = "Background_without_leaves"
    /\ result.disease_name = "Background_without_leaves"
    /\ result.context_used.detected_crop = "Rice"
    /\ "crop_compared" \in stages

====
